---- MODULE Spec2Model ----
(***************************************************************************)
(* Model of the expression evaluator of itdesign-at/eval (src/eval.go).    *)
(*                                                                         *)
(* An Eval instance holds an input text, the tree of the last ParseExpr    *)
(* and the variable store; Run walks the tree.  Go values (interface{})    *)
(* are tagged tuples, strings are sequences of one-character strings (so   *)
(* that quote stripping is computed, not assumed), float64 values are      *)
(* exact fractions plus NaN, +Inf and -Inf.  Signed zero and binary        *)
(* rounding are not modelled: no operation of the evaluator that is        *)
(* modelled here distinguishes -0 from 0 (every division tests r == 0      *)
(* first), and the operands are small.  Go's int is 64 bits wide; the      *)
(* operands of the model stay far from that width.                         *)
(***************************************************************************)
EXTENDS Integers, Sequences, FiniteSets, TLC

VARIABLES input, exp, variables, perr, result, status, ran, cpu

vars == <<input, exp, variables, perr, result, status, ran, cpu>>

RECURSIVE GCD(_, _)
RECURSIVE TrimLeft(_, _)
RECURSIVE TrimRight(_, _)
RECURSIVE DecValue(_)
RECURSIVE BaseValue(_, _)
RECURSIVE Unparen(_)
RECURSIVE floatsOf(_)
RECURSIVE floatsOfKeepingStrings(_)
RECURSIVE SumTwice(_)
RECURSIVE reduce(_, _, _, _)
RECURSIVE BitAnd(_, _)
RECURSIVE BitOr(_, _)
RECURSIVE eval(_, _, _)
RECURSIVE getArg(_, _, _)
RECURSIVE evalBinaryExpr(_, _, _)
RECURSIVE setValLoop(_, _, _, _)
RECURSIVE evalArgs(_, _, _, _)
RECURSIVE setVal(_, _, _)
RECURSIVE val(_, _, _)
RECURSIVE ifExpr(_, _, _)
RECURSIVE substr(_, _, _)
RECURSIVE time(_, _, _)
RECURSIVE callBuiltin(_, _, _, _)
RECURSIVE evalCall(_, _, _)
RECURSIVE evalUnary(_, _, _)
RECURSIVE NatText(_)
RECURSIVE extraArgs(_, _)
RECURSIVE doPrintf(_, _, _, _)
RECURSIVE evalParams(_, _, _, _)

----------------------------------------------------------------------------
(* Bounds of the model.                                                    *)

\* literal texts of the literal specification have at most this many characters
MaxLitLen == 3

\* the clock read by time() shows one of the seconds 0 .. MaxClock
MaxClock == 1

\* the Int operands of the arithmetic specification are -MaxOperand .. MaxOperand
MaxOperand == 2

----------------------------------------------------------------------------
(* Characters and strings.                                                 *)

DQ == "\""

Abs(i) == IF i < 0 THEN -i ELSE i

GCD(a, b) == IF b = 0 THEN Abs(a) ELSE GCD(b, a % b)

\* strings.TrimLeft(s, c) and strings.TrimRight(s, c) for a one-character cutset
TrimLeft(s, c) ==
    IF Len(s) > 0 /\ Head(s) = c THEN TrimLeft(Tail(s), c) ELSE s

TrimRight(s, c) ==
    IF Len(s) > 0 /\ s[Len(s)] = c
    THEN TrimRight(SubSeq(s, 1, Len(s) - 1), c)
    ELSE s

\* strings.Trim(s, c): every leading and every trailing c is removed
Trim(s, c) == TrimRight(TrimLeft(s, c), c)

\* stringer removes "" from a string at the beginning and at the end
stringer(s) ==
    IF Len(s) < 1 THEN << >>
    ELSE IF s[1] = DQ /\ s[Len(s)] = DQ THEN Trim(s, DQ)
    ELSE s

----------------------------------------------------------------------------
(* The dynamic values: what an interface{} of the evaluator can hold.      *)

BoolV(b) == <<"bool", b>>
IntV(i) == <<"int", i>>
StrV(s) == <<"string", s>>
NilV == <<"nil">>

\* a finite float64 n/d in lowest terms with d > 0
Fin(n, d) ==
    LET g == GCD(Abs(n), Abs(d))
        sgn == IF d < 0 THEN -1 ELSE 1
    IN  <<"float", "fin", (sgn * n) \div g, (sgn * d) \div g>>

NaN == <<"float", "nan", 0, 1>>
PosInf == <<"float", "pinf", 0, 1>>
NegInf == <<"float", "ninf", 0, 1>>

\* var FloatError = math.NaN()
FloatError == NaN

TypeOf(v) == v[1]
IsBool(v) == v[1] = "bool"
IsInt(v) == v[1] = "int"
IsFloat(v) == v[1] = "float"
IsString(v) == v[1] = "string"
IsNaN(v) == IsFloat(v) /\ v[2] = "nan"
IsFin(v) == IsFloat(v) /\ v[2] = "fin"

\* float64(i) for an int i
ToFloat(i) == Fin(i, 1)

\* sign of a float that is not NaN: -1, 0 or 1
Sign(f) ==
    CASE f[2] = "pinf" -> 1
      [] f[2] = "ninf" -> -1
      [] OTHER -> IF f[3] > 0 THEN 1 ELSE IF f[3] < 0 THEN -1 ELSE 0

InfOf(s) == IF s > 0 THEN PosInf ELSE NegInf

\* IEEE-754 addition, subtraction, multiplication and division of float64
FNeg(f) ==
    CASE f[2] = "nan" -> NaN
      [] f[2] = "pinf" -> NegInf
      [] f[2] = "ninf" -> PosInf
      [] OTHER -> Fin(-f[3], f[4])

FAdd(a, b) ==
    CASE a[2] = "nan" \/ b[2] = "nan" -> NaN
      [] a[2] = "fin" /\ b[2] = "fin" -> Fin(a[3] * b[4] + b[3] * a[4], a[4] * b[4])
      [] a[2] = "fin" -> b
      [] b[2] = "fin" -> a
      [] OTHER -> IF a[2] = b[2] THEN a ELSE NaN

FSub(a, b) == FAdd(a, FNeg(b))

FMul(a, b) ==
    CASE a[2] = "nan" \/ b[2] = "nan" -> NaN
      [] a[2] = "fin" /\ b[2] = "fin" -> Fin(a[3] * b[3], a[4] * b[4])
      [] OTHER -> IF Sign(a) * Sign(b) = 0 THEN NaN ELSE InfOf(Sign(a) * Sign(b))

FDiv(a, b) ==
    CASE a[2] = "nan" \/ b[2] = "nan" -> NaN
      [] a[2] = "fin" /\ b[2] = "fin" ->
            IF b[3] = 0
            THEN (IF a[3] = 0 THEN NaN ELSE InfOf(Sign(a)))
            ELSE Fin(a[3] * b[4], a[4] * b[3])
      [] a[2] = "fin" -> Fin(0, 1)
      [] b[2] = "fin" -> InfOf(Sign(a) * (IF Sign(b) < 0 THEN -1 ELSE 1))
      [] OTHER -> NaN

\* the Go comparison r == 0 of a float64 r
FIsZero(f) == f[2] = "fin" /\ f[3] = 0

\* the Go comparisons of two float64 (every comparison with NaN is false)
FEq(a, b) ==
    /\ a[2] # "nan" /\ b[2] # "nan"
    /\ a = b

FLt(a, b) ==
    /\ a[2] # "nan" /\ b[2] # "nan"
    /\ CASE a[2] = "fin" /\ b[2] = "fin" -> a[3] * b[4] < b[3] * a[4]
         [] a[2] = "ninf" -> b[2] # "ninf"
         [] a[2] = "pinf" -> FALSE
         [] OTHER -> b[2] = "pinf"

FLe(a, b) == FLt(a, b) \/ FEq(a, b)

\* the Go operators & and | on two's complement ints
BitAnd(a, b) ==
    IF a = 0 \/ b = 0 THEN 0
    ELSE IF a = -1 THEN b
    ELSE IF b = -1 THEN a
    ELSE (a % 2) * (b % 2) + 2 * BitAnd(a \div 2, b \div 2)

BitOr(a, b) ==
    IF a = 0 THEN b
    ELSE IF b = 0 THEN a
    ELSE IF a = -1 \/ b = -1 THEN -1
    ELSE (IF a % 2 = 1 \/ b % 2 = 1 THEN 1 ELSE 0) + 2 * BitOr(a \div 2, b \div 2)

----------------------------------------------------------------------------
(* Number texts: what strconv makes of the text of a literal.              *)

Digits == <<"0", "1", "2", "3", "4", "5", "6", "7", "8", "9">>

IsDigit(c) == \E i \in 1..10 : Digits[i] = c

DigitVal(c) == (CHOOSE i \in 1..10 : Digits[i] = c) - 1

\* the number a sequence of decimal digits denotes
DecValue(s) ==
    IF Len(s) = 0 THEN 0
    ELSE 10 * DecValue(SubSeq(s, 1, Len(s) - 1)) + DigitVal(s[Len(s)])

AllDigits(s) == Len(s) > 0 /\ \A i \in 1..Len(s) : IsDigit(s[i])

\* strconv.Atoi(s) with the error dropped (i, _ := strconv.Atoi(s)): base 10
\* only, an optional sign, no prefix and no underscore; a text it does not
\* accept gives 0.  (A text beyond 64 bits gives the nearest int64; the
\* texts of the model are shorter.)
AtoiOk(s) ==
    \/ AllDigits(s)
    \/ Len(s) > 1 /\ s[1] \in {"+", "-"} /\ AllDigits(Tail(s))

Atoi(s) ==
    IF ~AtoiOk(s) THEN 0
    ELSE IF s[1] = "-" THEN -DecValue(Tail(s))
    ELSE IF s[1] = "+" THEN DecValue(Tail(s))
    ELSE DecValue(s)

Pow10(k) == 10 ^ k

DotAt(s) == CHOOSE i \in 1..Len(s) : s[i] = "."

\* a plain decimal text with one dot and at least one digit: 1.5  1.  .5
PlainDecimal(s) ==
    /\ Len(s) > 1
    /\ Cardinality({i \in 1..Len(s) : s[i] = "."}) = 1
    /\ \A i \in 1..Len(s) : s[i] = "." \/ IsDigit(s[i])

\* the lower-case letter of the capitals that spell NaN, Inf and Infinity
Lower(c) ==
    CASE c = "N" -> "n" [] c = "A" -> "a" [] c = "I" -> "i" [] c = "F" -> "f"
      [] c = "T" -> "t" [] c = "Y" -> "y" [] OTHER -> c

LowerText(s) == [i \in 1..Len(s) |-> Lower(s[i])]

InfNames == {<<"i", "n", "f">>, <<"i", "n", "f", "i", "n", "i", "t", "y">>}

\* digits, or a plain decimal
IsDecimalText(s) == AllDigits(s) \/ PlainDecimal(s)

\* the value of a text of digits or a plain decimal
DecimalValue(s) ==
    IF AllDigits(s) THEN Fin(DecValue(s), 1)
    ELSE LET d == DotAt(s)
             digits == SubSeq(s, 1, d - 1) \o SubSeq(s, d + 1, Len(s))
         IN  Fin(DecValue(digits), Pow10(Len(s) - d))

\* strconv.ParseFloat(s, 64) as <<err == nil, value>>: an optional sign before
\* digits, a plain decimal, or inf / infinity in any case; nan in any case
\* without a sign; the value with a syntax error is 0.  (Exponents,
\* hexadecimal floats and underscores are in none of the texts of the model.)
ParseFloatErr(s) ==
    LET signed == Len(s) > 0 /\ s[1] \in {"+", "-"}
        body == IF signed THEN Tail(s) ELSE s
        neg == signed /\ s[1] = "-"
    IN  IF IsDecimalText(body)
        THEN <<TRUE, IF neg THEN FNeg(DecimalValue(body)) ELSE DecimalValue(body)>>
        ELSE IF LowerText(body) \in InfNames
        THEN <<TRUE, IF neg THEN NegInf ELSE PosInf>>
        ELSE IF LowerText(s) = <<"n", "a", "n">> THEN <<TRUE, NaN>>
        ELSE <<FALSE, Fin(0, 1)>>

\* f, _ := strconv.ParseFloat(s, 64): the error dropped
ParseFloat(s) == ParseFloatErr(s)[2]

\* floater: strconv.Atoi first, then strconv.ParseFloat, FloatError for neither
floater(s) ==
    IF AtoiOk(s) THEN ToFloat(Atoi(s))
    ELSE IF ParseFloatErr(s)[1] THEN ParseFloatErr(s)[2]
    ELSE FloatError

\* math.Abs
FAbs(f) ==
    CASE f[2] = "nan" -> NaN
      [] f[2] = "fin" -> Fin(Abs(f[3]), f[4])
      [] OTHER -> PosInf

\* the natural number whose square is n, or -1 when n is no square
IntRoot(n) == IF \E r \in 0..n : r * r = n THEN CHOOSE r \in 0..n : r * r = n ELSE -1

\* math.Sqrt: NaN for a negative argument.  A root that is no fraction is
\* kept as the value <<"float", "root", n, d>>: the float64 nearest to the
\* square root of n/d
FSqrt(f) ==
    CASE f[2] = "nan" \/ f[2] = "ninf" -> NaN
      [] f[2] = "pinf" -> PosInf
      [] f[2] = "fin" ->
            IF f[3] < 0 THEN NaN
            ELSE IF IntRoot(f[3]) >= 0 /\ IntRoot(f[4]) >= 0
            THEN Fin(IntRoot(f[3]), IntRoot(f[4]))
            ELSE <<"float", "root", f[3], f[4]>>

\* math.Min and math.Max: an infinity of the right sign wins over NaN
FMin(a, b) ==
    IF a = NegInf \/ b = NegInf THEN NegInf
    ELSE IF a[2] = "nan" \/ b[2] = "nan" THEN NaN
    ELSE IF FLt(b, a) THEN b ELSE a

FMax(a, b) ==
    IF a = PosInf \/ b = PosInf THEN PosInf
    ELSE IF a[2] = "nan" \/ b[2] = "nan" THEN NaN
    ELSE IF FLt(a, b) THEN b ELSE a

IsIntegral(f) == f[2] = "fin" /\ f[4] = 1
IsOddInt(f) == IsIntegral(f) /\ f[3] % 2 = 1

\* math.Pow, its special cases in the order of the library; the general case
\* is computed for an exponent that is a whole number or a half
FPow(x, y) ==
    CASE FIsZero(y) \/ x = Fin(1, 1) -> Fin(1, 1)
      [] y = Fin(1, 1) -> x
      [] x[2] = "nan" \/ y[2] = "nan" -> NaN
      [] FIsZero(x) -> IF Sign(y) < 0 THEN PosInf ELSE Fin(0, 1)
      [] y[2] \in {"pinf", "ninf"} ->
            IF x = Fin(-1, 1) THEN Fin(1, 1)
            ELSE IF FLt(FAbs(x), Fin(1, 1)) = (y = PosInf) THEN Fin(0, 1)
            ELSE PosInf
      [] x[2] = "pinf" -> IF Sign(y) < 0 THEN Fin(0, 1) ELSE PosInf
      [] x[2] = "ninf" ->
            IF Sign(y) < 0 THEN Fin(0, 1)
            ELSE IF IsOddInt(y) THEN NegInf ELSE PosInf
      [] y = Fin(1, 2) -> FSqrt(x)
      [] y = Fin(-1, 2) /\ FSqrt(x)[2] # "root" -> FDiv(Fin(1, 1), FSqrt(x))
      [] ~IsIntegral(y) /\ x[3] < 0 -> NaN
      [] IsIntegral(y) ->
            IF y[3] > 0 THEN Fin(x[3] ^ y[3], x[4] ^ y[3])
            ELSE Fin(x[4] ^ (-y[3]), x[3] ^ (-y[3]))

----------------------------------------------------------------------------
(* Expression trees (go/ast) and the variable store.                       *)

BasicLit(kind, text) == <<"BasicLit", kind, text>>
Ident(name) == <<"Ident", name>>
UnaryExpr(op, x) == <<"UnaryExpr", op, x>>
ParenExpr(x) == <<"ParenExpr", x>>
BinaryExpr(op, x, y) == <<"BinaryExpr", op, x, y>>
CallExpr(fun, args) == <<"CallExpr", fun, args>>
BadExpr == <<"BadExpr">>
NilExpr == <<"nil">>

\* variables map[string]interface{}: a nil map, or a map m
NilMap == [nil |-> TRUE, m |-> << >>]
MapOf(m) == [nil |-> FALSE, m |-> m]
HasKey(vs, k) == k \in DOMAIN vs.m

\* what an evaluation gives: the value, the store it leaves, and whether it
\* returned at all (ok = FALSE: a run-time panic unwound it)
Ret(v, vs) == [v |-> v, vars |-> vs, ok |-> TRUE]
Panic(vs) == [v |-> NilV, vars |-> vs, ok |-> FALSE]

----------------------------------------------------------------------------
(* Binary operators (evalBinaryExpr's switch on exp.Op), on two operands   *)
(* that getArg has normalised.                                             *)

\* operand pairs the arithmetic operators accept: Int or Float on both sides
BothNumeric(l, r) == (IsInt(l) \/ IsFloat(l)) /\ (IsInt(r) \/ IsFloat(r))

\* float64(x) for an operand that is an int or a float64
Promote(x) == IF IsInt(x) THEN ToFloat(x[2]) ELSE x

Add(l, r) ==
    IF ~BothNumeric(l, r) THEN FloatError
    ELSE IF IsInt(l) /\ IsInt(r) THEN IntV(l[2] + r[2])
    ELSE FAdd(Promote(l), Promote(r))

Sub(l, r) ==
    IF ~BothNumeric(l, r) THEN FloatError
    ELSE IF IsInt(l) /\ IsInt(r) THEN IntV(l[2] - r[2])
    ELSE FSub(Promote(l), Promote(r))

Mul(l, r) ==
    IF ~BothNumeric(l, r) THEN FloatError
    ELSE IF IsInt(l) /\ IsInt(r) THEN IntV(l[2] * r[2])
    ELSE FMul(Promote(l), Promote(r))

\* the divisor test r == 0 of each of the four branches
IsZeroDivisor(r) == IF IsInt(r) THEN r[2] = 0 ELSE FIsZero(r)

\* Quo without the divisor test: the division of IEEE-754 alone
QuoUnguarded(l, r) ==
    IF ~BothNumeric(l, r) THEN FloatError
    ELSE FDiv(Promote(l), Promote(r))

\* Quo with Go's integer division for two ints
QuoIntegerDivision(l, r) ==
    IF ~BothNumeric(l, r) THEN FloatError
    ELSE IF IsZeroDivisor(r) THEN PosInf
    ELSE IF IsInt(l) /\ IsInt(r)
    THEN IntV((IF (l[2] < 0) = (r[2] < 0) THEN 1 ELSE -1) * (Abs(l[2]) \div Abs(r[2])))
    ELSE FDiv(Promote(l), Promote(r))

Quo(l, r) ==
    IF ~BothNumeric(l, r) THEN FloatError
    ELSE IF IsZeroDivisor(r) THEN PosInf
    ELSE FDiv(Promote(l), Promote(r))

Eql(l, r) ==
    IF IsBool(l) /\ IsBool(r) THEN BoolV(l[2] = r[2])
    ELSE IF IsString(l) /\ IsString(r) THEN BoolV(l[2] = r[2])
    ELSE IF ~BothNumeric(l, r) THEN FloatError
    ELSE IF IsInt(l) /\ IsInt(r) THEN BoolV(l[2] = r[2])
    ELSE BoolV(FEq(Promote(l), Promote(r)))

\* Neq that answers "differ" on a float64 and an int as well
NeqProper(l, r) ==
    IF IsBool(l) /\ IsBool(r) THEN BoolV(l[2] # r[2])
    ELSE IF IsString(l) /\ IsString(r) THEN BoolV(l[2] # r[2])
    ELSE IF ~BothNumeric(l, r) THEN FloatError
    ELSE IF IsInt(l) /\ IsInt(r) THEN BoolV(l[2] # r[2])
    ELSE BoolV(~FEq(Promote(l), Promote(r)))

Neq(l, r) ==
    IF IsBool(l) /\ IsBool(r) THEN BoolV(l[2] # r[2])
    ELSE IF IsString(l) /\ IsString(r) THEN BoolV(l[2] # r[2])
    ELSE IF ~BothNumeric(l, r) THEN FloatError
    ELSE IF IsInt(l) /\ IsInt(r) THEN BoolV(l[2] # r[2])
    ELSE IF IsFloat(l) /\ IsInt(r) THEN BoolV(FEq(l, Promote(r)))
    ELSE BoolV(~FEq(Promote(l), Promote(r)))

\* Lss that also orders two strings
LssWithStrings(l, r) ==
    IF IsString(l) /\ IsString(r) THEN BoolV(Len(l[2]) < Len(r[2]))
    ELSE IF ~BothNumeric(l, r) THEN FloatError
    ELSE IF IsInt(l) /\ IsInt(r) THEN BoolV(l[2] < r[2])
    ELSE BoolV(FLt(Promote(l), Promote(r)))

Lss(l, r) ==
    IF ~BothNumeric(l, r) THEN FloatError
    ELSE IF IsInt(l) /\ IsInt(r) THEN BoolV(l[2] < r[2])
    ELSE BoolV(FLt(Promote(l), Promote(r)))

Gtr(l, r) ==
    IF ~BothNumeric(l, r) THEN FloatError
    ELSE IF IsInt(l) /\ IsInt(r) THEN BoolV(l[2] > r[2])
    ELSE BoolV(FLt(Promote(r), Promote(l)))

Leq(l, r) ==
    IF ~BothNumeric(l, r) THEN FloatError
    ELSE IF IsInt(l) /\ IsInt(r) THEN BoolV(l[2] <= r[2])
    ELSE BoolV(FLe(Promote(l), Promote(r)))

Geq(l, r) ==
    IF ~BothNumeric(l, r) THEN FloatError
    ELSE IF IsInt(l) /\ IsInt(r) THEN BoolV(l[2] >= r[2])
    ELSE BoolV(FLe(Promote(r), Promote(l)))

Land(l, r) == IF IsBool(l) /\ IsBool(r) THEN BoolV(l[2] /\ r[2]) ELSE FloatError

Lor(l, r) == IF IsBool(l) /\ IsBool(r) THEN BoolV(l[2] \/ r[2]) ELSE FloatError

Or(l, r) == IF IsInt(l) /\ IsInt(r) THEN IntV(BitOr(l[2], r[2])) ELSE FloatError

\* And with a float64 operand truncated to an int
AndTruncating(l, r) ==
    IF BothNumeric(l, r) /\ (IsInt(l) \/ IsFin(l)) /\ (IsInt(r) \/ IsFin(r))
    THEN IntV(BitAnd(IF IsInt(l) THEN l[2] ELSE l[3] \div l[4],
                     IF IsInt(r) THEN r[2] ELSE r[3] \div r[4]))
    ELSE FloatError

And(l, r) == IF IsInt(l) /\ IsInt(r) THEN IntV(BitAnd(l[2], r[2])) ELSE FloatError

\* the switch on exp.Op; an operator without a case falls to FloatError
BinOp(op, l, r) ==
    CASE op = "ADD" -> Add(l, r)
      [] op = "SUB" -> Sub(l, r)
      [] op = "MUL" -> Mul(l, r)
      [] op = "QUO" -> Quo(l, r)
      [] op = "EQL" -> Eql(l, r)
      [] op = "LSS" -> Lss(l, r)
      [] op = "GTR" -> Gtr(l, r)
      [] op = "NEQ" -> Neq(l, r)
      [] op = "LEQ" -> Leq(l, r)
      [] op = "GEQ" -> Geq(l, r)
      [] op = "LAND" -> Land(l, r)
      [] op = "LOR" -> Lor(l, r)
      [] op = "OR" -> Or(l, r)
      [] op = "AND" -> And(l, r)
      [] OTHER -> FloatError

----------------------------------------------------------------------------
(* The recursive interpreter.  Every operator takes the tree (or the       *)
(* argument list), the store vs it starts from and the clock reading now,  *)
(* and gives Ret(value, store) or Panic(store).                            *)

\* the names of the built-ins modelled here; the trees of the model call no
\* other built-in of eval's switch
TrueName == <<"t", "r", "u", "e">>
FalseName == <<"f", "a", "l", "s", "e">>

\* Normalise without the default branch: a value of any other type passes
NormaliseNoDefault(x) ==
    IF IsString(x) THEN StrV(stringer(x[2])) ELSE x

\* getArg's type switch on an evaluated value
Normalise(x) ==
    CASE IsBool(x) \/ IsInt(x) \/ IsFloat(x) -> x
      [] IsString(x) -> StrV(stringer(x[2]))
      [] OTHER -> NaN

getArg(e, vs, now) ==
    LET r == eval(e, vs, now)
    IN  IF r.ok THEN Ret(Normalise(r.v), r.vars) ELSE r

\* getArg on args[i], args[i+1], ... in turn, each on the store the one before
\* left; acc holds the values so far
evalArgs(args, acc, vs, now) ==
    IF Len(args) = 0 THEN [vals |-> acc, vars |-> vs, ok |-> TRUE]
    ELSE LET r == getArg(Head(args), vs, now)
         IN  IF r.ok
             THEN evalArgs(Tail(args), Append(acc, r.v), r.vars, now)
             ELSE [vals |-> acc, vars |-> r.vars, ok |-> FALSE]

evalBinaryExpr(e, vs, now) ==
    LET a == evalArgs(<<e[3], e[4]>>, << >>, vs, now)
    IN  IF a.ok THEN Ret(BinOp(e[2], a.vals[1], a.vals[2]), a.vars)
        ELSE Panic(a.vars)

\* exp.(*ast.Ident).Name: the type assertion panics on any other callee
IsIdent(e) == e[1] = "Ident"

\* the unary switch: + and - on int and float64, FloatError on any other operand
UnaryValue(op, x) ==
    IF ~(IsInt(x) \/ IsFloat(x)) THEN FloatError
    ELSE IF op = "ADD" THEN x
    ELSE IF IsInt(x) THEN IntV(-1 * x[2])
    ELSE FNeg(x)

\* case *ast.BasicLit
LitValue(kind, text) ==
    CASE kind = "INT" -> IntV(Atoi(text))
      [] kind = "FLOAT" -> ParseFloat(text)
      [] kind = "STRING" -> StrV(text)
      [] OTHER -> FloatError

\* IdentValue with the store looked up before the names true and false
IdentValueStoreFirst(name, vs) ==
    IF HasKey(vs, name) THEN vs.m[name]
    ELSE IF name = TrueName THEN BoolV(TRUE)
    ELSE IF name = FalseName THEN BoolV(FALSE)
    ELSE FloatError

\* case *ast.Ident
IdentValue(name, vs) ==
    IF name = TrueName THEN BoolV(TRUE)
    ELSE IF name = FalseName THEN BoolV(FALSE)
    ELSE IF HasKey(vs, name) THEN vs.m[name]
    ELSE FloatError

\* the built-in names of eval's switch that this development models
Name(str) ==
    CASE str = "setVal" -> <<"s", "e", "t", "V", "a", "l">>
      [] str = "val" -> <<"v", "a", "l">>
      [] str = "substr" -> <<"s", "u", "b", "s", "t", "r">>
      [] str = "time" -> <<"t", "i", "m", "e">>
      [] str = "ifExpr" -> <<"i", "f", "E", "x", "p", "r">>
      [] str = "abs" -> <<"a", "b", "s">>
      [] str = "sqrt" -> <<"s", "q", "r", "t">>
      [] str = "float64" -> <<"f", "l", "o", "a", "t", "6", "4">>
      [] str = "int" -> <<"i", "n", "t">>
      [] str = "env" -> <<"e", "n", "v">>
      [] str = "isNaN" -> <<"i", "s", "N", "a", "N">>
      [] str = "pow" -> <<"p", "o", "w">>
      [] str = "min" -> <<"m", "i", "n">>
      [] str = "max" -> <<"m", "a", "x">>
      [] str = "avg" -> <<"a", "v", "g">>
      [] str = "isBetween" -> <<"i", "s", "B", "e", "t", "w", "e", "e", "n">>
      [] str = "sprintf" -> <<"s", "p", "r", "i", "n", "t", "f">>

EmptyString == StrV(<< >>)

\* storeValue with every int stored as a float64
storeValueAsFloat(vs, name, value) ==
    IF IsString(value)
    THEN MapOf((name :> StrV(stringer(value[2]))) @@ vs.m)
    ELSE IF IsBool(value) \/ IsInt(value) \/ IsFloat(value)
    THEN MapOf((name :> Promote(value)) @@ vs.m)
    ELSE vs

\* storeValue writing into a fresh map
storeValueFresh(vs, name, value) ==
    IF IsString(value)
    THEN MapOf(name :> StrV(stringer(value[2])))
    ELSE IF IsBool(value) \/ IsInt(value) \/ IsFloat(value)
    THEN MapOf(name :> value)
    ELSE vs

\* the switch on the value's type that ends setVal's loop body
storeValue(vs, name, value) ==
    IF IsString(value)
    THEN MapOf((name :> StrV(stringer(value[2]))) @@ vs.m)
    ELSE IF IsBool(value) \/ IsInt(value) \/ IsFloat(value)
    THEN MapOf((name :> value) @@ vs.m)
    ELSE vs

\* if e.variables == nil { e.variables = make(map[string]interface{}) }
makeIfNil(vs) == IF vs.nil THEN MapOf(<< >>) ELSE vs

\* setVal's loop that steps over the value as well when the key is no string
setValLoopSkippingPair(args, i, vs, now) ==
    IF i > Len(args) THEN Ret(NilV, vs)
    ELSE LET x == getArg(args[i], vs, now)
         IN  IF ~x.ok THEN x
             ELSE IF i + 1 > Len(args) THEN setValLoop(args, i + 1, x.vars, now)
             ELSE IF ~IsString(x.v) THEN setValLoop(args, i + 2, x.vars, now)
             ELSE IF stringer(x.v[2]) = << >>
             THEN setValLoop(args, i + 1, makeIfNil(x.vars), now)
             ELSE LET value == getArg(args[i + 1], makeIfNil(x.vars), now)
                  IN  IF ~value.ok THEN value
                      ELSE setValLoop(args, i + 2,
                               storeValue(value.vars, stringer(x.v[2]), value.v), now)

\* setVal's loop from index i (1-based) on; a call of setVal returns a nil error
setValLoop(args, i, vs, now) ==
    IF i > Len(args) THEN Ret(NilV, vs)
    ELSE LET x == getArg(args[i], vs, now)
         IN  IF ~x.ok THEN x
             ELSE IF i + 1 > Len(args) THEN setValLoop(args, i + 1, x.vars, now)
             ELSE IF ~IsString(x.v) THEN setValLoop(args, i + 1, x.vars, now)
             ELSE IF stringer(x.v[2]) = << >>
             THEN setValLoop(args, i + 1, makeIfNil(x.vars), now)
             ELSE LET value == getArg(args[i + 1], makeIfNil(x.vars), now)
                  IN  IF ~value.ok THEN value
                      ELSE setValLoop(args, i + 2,
                               storeValue(value.vars, stringer(x.v[2]), value.v), now)

setVal(args, vs, now) == setValLoop(args, 1, vs, now)

\* val that makes the store when there is none
valMakingStore(args, vs, now) ==
    IF Len(args) # 1 THEN Ret(EmptyString, vs)
    ELSE LET s == eval(args[1], makeIfNil(vs), now)
         IN  IF ~s.ok THEN s
             ELSE IF IsString(s.v) /\ HasKey(s.vars, stringer(s.v[2]))
             THEN Ret(s.vars.m[stringer(s.v[2])], s.vars)
             ELSE Ret(EmptyString, s.vars)

\* val("name"): the argument is evaluated by eval, not by getArg
val(args, vs, now) ==
    IF Len(args) # 1 \/ vs.nil THEN Ret(EmptyString, vs)
    ELSE LET s == eval(args[1], vs, now)
         IN  IF ~s.ok THEN s
             ELSE IF IsString(s.v) /\ HasKey(s.vars, stringer(s.v[2]))
             THEN Ret(s.vars.m[stringer(s.v[2])], s.vars)
             ELSE Ret(EmptyString, s.vars)

\* a string result of ifExpr goes through stringer once more
Unquoted(v) == IF IsString(v) THEN StrV(stringer(v[2])) ELSE v

\* ifExpr with an int or a float64 condition read as "not zero"
ifExprTruthy(args, vs, now) ==
    IF Len(args) # 3 THEN Ret(FloatError, vs)
    ELSE LET a == evalArgs(args, << >>, vs, now)
             c == a.vals[1]
         IN  IF ~a.ok THEN Panic(a.vars)
             ELSE IF IsString(c) THEN Ret(FloatError, a.vars)
             ELSE IF c \notin {BoolV(FALSE), IntV(0), Fin(0, 1)}
             THEN Ret(Unquoted(a.vals[2]), a.vars)
             ELSE Ret(Unquoted(a.vals[3]), a.vars)

\* ifExpr that evaluates the condition and then the selected branch only
ifExprLazy(args, vs, now) ==
    IF Len(args) # 3 THEN Ret(FloatError, vs)
    ELSE LET c == getArg(args[1], vs, now)
             x == getArg(args[IF c.v = BoolV(TRUE) THEN 2 ELSE 3], c.vars, now)
         IN  IF ~c.ok THEN c
             ELSE IF ~IsBool(c.v) THEN Ret(FloatError, c.vars)
             ELSE IF ~x.ok THEN x
             ELSE Ret(Unquoted(x.v), x.vars)

ifExpr(args, vs, now) ==
    IF Len(args) # 3 THEN Ret(FloatError, vs)
    ELSE LET a == evalArgs(args, << >>, vs, now)
         IN  IF ~a.ok THEN Panic(a.vars)
             ELSE IF ~IsBool(a.vals[1]) THEN Ret(FloatError, a.vars)
             ELSE IF a.vals[1][2] THEN Ret(Unquoted(a.vals[2]), a.vars)
             ELSE Ret(Unquoted(a.vals[3]), a.vars)

\* int(f) of a finite float64: truncation toward zero
TruncToInt(f) == Sign(f) * (Abs(f[3]) \div f[4])

\* startP and cutL of substr: an int as it is, a finite float64 truncated, 0
\* for a bool or a string.  (int(f) of a NaN or an infinity depends on the
\* processor; the trees of the model give substr no such argument.)
substrInt(v) ==
    IF IsInt(v) THEN v[2]
    ELSE IF IsFin(v) THEN TruncToInt(v)
    ELSE 0

\* the slice expression s[lo:hi] (0-based, hi excluded): it panics unless
\* 0 <= lo <= hi <= len(s)
SliceOk(s, lo, hi) == 0 <= lo /\ lo <= hi /\ hi <= Len(s)
Slice(s, lo, hi) == SubSeq(s, lo + 1, hi)

\* substrOf without the clamping of cutL to the end of the string
substrOfUnclamped(s, startP, cutL0) ==
    LET l == Len(s)
        slice(lo, hi) == IF SliceOk(s, lo, hi) THEN <<TRUE, Slice(s, lo, hi)>>
                         ELSE <<FALSE, << >> >>
    IN  IF s = << >> THEN <<TRUE, << >> >>
        ELSE IF cutL0 = 0 THEN <<TRUE, << >> >>
        ELSE IF Abs(startP) >= l THEN <<TRUE, << >> >>
        ELSE IF startP >= 0 /\ cutL0 = -1 THEN slice(startP, l)
        ELSE IF startP < 0
        THEN IF cutL0 = -1 THEN slice(l + startP, l)
             ELSE slice(l + startP, l + startP + cutL0)
        ELSE IF startP + cutL0 < startP THEN <<TRUE, << >> >>
        ELSE slice(startP, startP + cutL0)

\* substr's body once theString is the string s: <<TRUE, text>>, or <<FALSE, ..>>
\* for the run-time panic of a slice expression out of range
substrOf(s, startP, cutL0) ==
    LET l == Len(s)
        cutL == IF cutL0 > l THEN l ELSE cutL0
        slice(lo, hi) == IF SliceOk(s, lo, hi) THEN <<TRUE, Slice(s, lo, hi)>>
                         ELSE <<FALSE, << >> >>
    IN  IF s = << >> THEN <<TRUE, << >> >>
        ELSE IF cutL0 = 0 THEN <<TRUE, << >> >>
        ELSE IF Abs(startP) >= l THEN <<TRUE, << >> >>
        ELSE IF startP >= 0 /\ cutL = -1 THEN slice(startP, l)
        ELSE IF startP < 0
        THEN IF cutL = -1 THEN slice(l + startP, l)
             ELSE LET x == l + startP
                      c == IF x + cutL >= l THEN l - x ELSE cutL
                  IN  slice(x, x + c)
        ELSE IF startP + cutL < startP THEN <<TRUE, << >> >>
        ELSE LET c == IF startP + cutL >= l THEN l - startP ELSE cutL
             IN  slice(startP, startP + c)

substr(args, vs, now) ==
    IF Len(args) # 3 THEN Ret(EmptyString, vs)
    ELSE LET a == evalArgs(args, << >>, vs, now)
         IN  IF ~a.ok THEN Panic(a.vars)
             ELSE IF ~IsString(a.vals[1]) THEN Ret(EmptyString, a.vars)
             ELSE LET r == substrOf(a.vals[1][2], substrInt(a.vals[2]),
                                    substrInt(a.vals[3]))
                  IN  IF r[1] THEN Ret(StrV(r[2]), a.vars) ELSE Panic(a.vars)

\* time.Now().Unix() and the Unix() of the zero time.Time (an int64 each)
NowUnix(now) == <<"int64", "now", now>>
ZeroUnix == <<"int64", "zero", 0>>

\* time.Now().Format(time.RFC3339) and the same of the zero time.Time: a
\* non-empty text that names the second
Rfc3339(now) == StrV(<<"T", Digits[now + 1]>>)
ZeroRfc3339 == StrV(<<"T", "Z">>)

Epoch == <<"e", "p", "o", "c", "h">>
NowText == <<"n", "o", "w">>
StartTime == <<"s", "t", "a", "r", "t", "t", "i", "m", "e">>
Rfc3339Names == {<<"r", "f", "c", "3", "3", "3", "9">>, <<"R", "F", "C", "3", "3", "3", "9">>}

\* the nested switches of time once both arguments are there
timeOf(a, b, now) ==
    IF ~(IsString(a) /\ IsString(b)) THEN EmptyString
    ELSE LET left == stringer(a[2])
             right == stringer(b[2])
         IN  IF left \in {<< >>, NowText}
             THEN (IF right \in {<< >>, Epoch} THEN NowUnix(now)
                   ELSE IF right \in Rfc3339Names THEN Rfc3339(now)
                   ELSE EmptyString)
             ELSE IF left = StartTime
             THEN (IF right \in {<< >>, Epoch} THEN ZeroUnix
                   ELSE IF right \in Rfc3339Names THEN ZeroRfc3339
                   ELSE EmptyString)
             ELSE EmptyString

time(args, vs, now) ==
    IF Len(args) # 2 THEN Ret(EmptyString, vs)
    ELSE LET a == evalArgs(args, << >>, vs, now)
         IN  IF ~a.ok THEN Panic(a.vars)
             ELSE Ret(timeOf(a.vals[1], a.vals[2], now), a.vars)

IsInt64(v) == v[1] = "int64"

\* numeric conversion of a string argument: stringer, then strconv.ParseFloat
ParsedFloat(v) == ParseFloatErr(stringer(v[2]))

absOf(x) ==
    CASE IsInt(x) -> FAbs(ToFloat(x[2]))
      [] IsFloat(x) -> FAbs(x)
      [] IsString(x) /\ ParsedFloat(x)[1] -> FAbs(ParsedFloat(x)[2])
      [] OTHER -> FloatError

abs(args, vs, now) ==
    IF Len(args) # 1 THEN Ret(FloatError, vs)
    ELSE LET x == getArg(args[1], vs, now)
         IN  IF x.ok THEN Ret(absOf(x.v), x.vars) ELSE x

\* os.Getenv: the environment of the process holds H=r and nothing else
Getenv(name) == IF name = <<"H">> THEN <<"r">> ELSE << >>

env(args, vs, now) ==
    IF Len(args) < 1 THEN Ret(EmptyString, vs)
    ELSE LET s == eval(args[1], vs, now)
         IN  IF ~s.ok THEN s
             ELSE IF IsString(s.v) THEN Ret(StrV(Getenv(stringer(s.v[2]))), s.vars)
             ELSE Ret(EmptyString, s.vars)

\* the type switch of float64 on the evaluated argument
float64Of(s) ==
    CASE IsBool(s) -> IF s[2] THEN Fin(1, 1) ELSE Fin(0, 1)
      [] IsInt(s) -> ToFloat(s[2])
      [] IsInt64(s) -> ToFloat(s[3])
      [] IsFloat(s) -> s
      [] IsString(s) /\ ParsedFloat(s)[1] -> ParsedFloat(s)[2]
      [] OTHER -> FloatError

float64(args, vs, now) ==
    IF Len(args) < 1 THEN Ret(FloatError, vs)
    ELSE LET s == eval(args[1], vs, now)
         IN  IF s.ok THEN Ret(float64Of(s.v), s.vars) ELSE s

\* the processors the program is built for
Cpus == {"amd64", "arm64"}

\* the least and the greatest int; they stand for -2^63 and 2^63 - 1, which
\* are beyond the integers of the model checker
MinInt == -2147483647
MaxInt == 2147483647

\* int(f) of a float64 that no int represents: the language leaves the value
\* to the implementation.  amd64 answers the least int for all of them, arm64
\* saturates and answers 0 for NaN.
intOfFloat(f) ==
    CASE IsFin(f) -> IntV(TruncToInt(f))
      [] cpu = "amd64" -> IntV(MinInt)
      [] cpu = "arm64" /\ f = NaN -> IntV(0)
      [] cpu = "arm64" /\ f = PosInf -> IntV(MaxInt)
      [] cpu = "arm64" /\ f = NegInf -> IntV(MinInt)

\* the type switch of int on the evaluated argument
intOf(s) ==
    CASE IsBool(s) -> IF s[2] THEN IntV(1) ELSE IntV(0)
      [] IsInt(s) -> s
      [] IsInt64(s) -> IntV(s[3])
      [] IsFloat(s) -> intOfFloat(s)
      [] IsString(s) /\ AtoiOk(stringer(s[2])) -> IntV(Atoi(stringer(s[2])))
      [] IsString(s) /\ ParsedFloat(s)[1] -> intOfFloat(ParsedFloat(s)[2])
      [] IsString(s) /\ ~ParsedFloat(s)[1] -> FloatError
      [] s = NilV -> FloatError

int(args, vs, now) ==
    IF Len(args) < 1 THEN Ret(FloatError, vs)
    ELSE LET s == eval(args[1], vs, now)
         IN  IF s.ok THEN Ret(intOf(s.v), s.vars) ELSE s

\* f64Value without the tests for an infinity
f64ValueWithInf(v) ==
    CASE IsInt(v) -> ToFloat(v[2])
      [] IsString(v) ->
            IF stringer(v[2]) = << >> THEN FloatError
            ELSE IF ParsedFloat(v)[1] THEN ParsedFloat(v)[2]
            ELSE FloatError
      [] IsFloat(v) -> v
      [] OTHER -> FloatError

\* f64Value of isBetween
f64Value(v) ==
    CASE IsInt(v) -> ToFloat(v[2])
      [] IsString(v) ->
            IF stringer(v[2]) = << >> THEN FloatError
            ELSE IF ParsedFloat(v)[1] /\ IsFin(ParsedFloat(v)[2]) THEN ParsedFloat(v)[2]
            ELSE FloatError
      [] IsFin(v) -> v
      [] OTHER -> FloatError

isBetween(args, vs, now) ==
    IF Len(args) # 3 THEN Ret(BoolV(FALSE), vs)
    ELSE LET a == evalArgs(args, << >>, vs, now)
         IN  IF ~a.ok THEN Panic(a.vars)
             ELSE Ret(BoolV(/\ FLe(f64Value(a.vals[2]), f64Value(a.vals[1]))
                            /\ FLe(f64Value(a.vals[1]), f64Value(a.vals[3]))), a.vars)

\* isNaNOf without the case for bool
isNaNOfNoBool(s) ==
    CASE IsInt(s) \/ IsInt64(s) -> FALSE
      [] IsFloat(s) -> IsNaN(s)
      [] IsString(s) -> IF ParsedFloat(s)[1] THEN IsNaN(ParsedFloat(s)[2]) ELSE TRUE
      [] OTHER -> TRUE

\* the type switch of isNaN on the evaluated argument
isNaNOf(s) ==
    CASE IsBool(s) \/ IsInt(s) \/ IsInt64(s) -> FALSE
      [] IsFloat(s) -> IsNaN(s)
      [] IsString(s) -> IF ParsedFloat(s)[1] THEN IsNaN(ParsedFloat(s)[2]) ELSE TRUE
      [] OTHER -> TRUE

isNaN(args, vs, now) ==
    IF Len(args) # 1 THEN Ret(BoolV(TRUE), vs)
    ELSE LET s == eval(args[1], vs, now)
         IN  IF s.ok THEN Ret(BoolV(isNaNOf(s.v)), s.vars) ELSE s

\* floatsOf with a string that is no number kept as NaN
floatsOfKeepingStrings(vals) ==
    IF Len(vals) = 0 THEN << >>
    ELSE LET f == Head(vals)
             rest == floatsOfKeepingStrings(Tail(vals))
         IN  CASE IsInt(f) -> <<ToFloat(f[2])>> \o rest
               [] IsFloat(f) -> <<f>> \o rest
               [] IsString(f) -> <<floater(stringer(f[2]))>> \o rest
               [] OTHER -> rest

\* the loop of avgMaxMin over the evaluated arguments: the floats it collects
floatsOf(vals) ==
    IF Len(vals) = 0 THEN << >>
    ELSE LET f == Head(vals)
             rest == floatsOf(Tail(vals))
         IN  CASE IsInt(f) -> <<ToFloat(f[2])>> \o rest
               [] IsFloat(f) -> <<f>> \o rest
               [] IsString(f) /\ ~IsNaN(floater(stringer(f[2]))) ->
                     <<floater(stringer(f[2]))>> \o rest
               [] OTHER -> rest

\* the loops of the switch on flag, from floats[i] on with val so far
reduce(flag, floats, i, acc) ==
    IF i > Len(floats) THEN acc
    ELSE reduce(flag, floats, i + 1,
                CASE flag = 1 -> FMin(acc, floats[i])
                  [] flag = 2 -> FMax(acc, floats[i])
                  [] flag = 3 -> FAdd(acc, floats[i]))

avgMaxMin(args, flag, vs, now) ==
    IF Len(args) = 0 THEN Ret(FloatError, vs)
    ELSE LET a == evalArgs(args, << >>, vs, now)
             floats == floatsOf(a.vals)
         IN  IF ~a.ok THEN Panic(a.vars)
             ELSE IF Len(floats) < 1 THEN Ret(FloatError, a.vars)
             ELSE IF flag = 3
             THEN Ret(FDiv(reduce(3, floats, 1, Fin(0, 1)), ToFloat(Len(floats))), a.vars)
             ELSE Ret(reduce(flag, floats, 2, floats[1]), a.vars)

\* the type switches of pow on a and on b
powOperand(v) ==
    CASE IsInt(v) -> ToFloat(v[2])
      [] IsFloat(v) -> v
      [] IsString(v) -> floater(stringer(v[2]))
      [] OTHER -> FloatError

pow(args, vs, now) ==
    IF Len(args) # 2 THEN Ret(FloatError, vs)
    ELSE LET a == evalArgs(args, << >>, vs, now)
         IN  IF ~a.ok THEN Panic(a.vars)
             ELSE Ret(FPow(powOperand(a.vals[1]), powOperand(a.vals[2])), a.vars)

sqrtOf(x) ==
    CASE IsInt(x) -> FSqrt(ToFloat(x[2]))
      [] IsFloat(x) -> FSqrt(x)
      [] OTHER -> FloatError

sqrt(args, vs, now) ==
    IF Len(args) # 1 THEN Ret(FloatError, vs)
    ELSE LET x == getArg(args[1], vs, now)
         IN  IF x.ok THEN Ret(sqrtOf(x.v), x.vars) ELSE x

\* the text of an int in base 10
NatText(n) ==
    IF n < 10 THEN <<Digits[n + 1]>> ELSE NatText(n \div 10) \o <<Digits[(n % 10) + 1]>>

IntText(n) == IF n < 0 THEN <<"-">> \o NatText(-n) ELSE NatText(n)

\* the name fmt prints for the type of a value
TypeName(v) ==
    CASE IsString(v) -> <<"s", "t", "r", "i", "n", "g">>
      [] IsInt(v) -> <<"i", "n", "t">>
      [] IsBool(v) -> <<"b", "o", "o", "l">>
      [] IsFloat(v) -> <<"f", "l", "o", "a", "t", "6", "4">>

\* fmt's %v of a value (of the Floats, NaN and the infinities only)
DefaultText(v) ==
    CASE IsString(v) -> v[2]
      [] IsInt(v) -> IntText(v[2])
      [] IsBool(v) -> IF v[2] THEN <<"t", "r", "u", "e">> ELSE <<"f", "a", "l", "s", "e">>
      [] v = NaN -> <<"N", "a", "N">>
      [] v = PosInf -> <<"+", "I", "n", "f">>
      [] v = NegInf -> <<"-", "I", "n", "f">>

\* fmt's answer to a verb the operand's type does not have: %!verb(type=value)
badVerb(verb, v) ==
    <<"%", "!", verb, "(">> \o TypeName(v) \o <<"=">> \o DefaultText(v) \o <<")">>

\* fmt's printArg for the verbs v, s, d and t
printArg(v, verb) ==
    CASE verb = "v" -> DefaultText(v)
      [] verb = "s" -> IF IsString(v) THEN v[2] ELSE badVerb(verb, v)
      [] verb = "d" -> IF IsInt(v) THEN IntText(v[2]) ELSE badVerb(verb, v)
      [] verb = "t" -> IF IsBool(v) THEN DefaultText(v) ELSE badVerb(verb, v)

\* the operands fmt was given and the format did not use: type=value, ...
extraArgs(a, argNum) ==
    IF argNum > Len(a) THEN << >>
    ELSE TypeName(a[argNum]) \o <<"=">> \o DefaultText(a[argNum])
            \o (IF argNum < Len(a) THEN <<",", " ">> ELSE << >>)
            \o extraArgs(a, argNum + 1)

\* fmt's doPrintf from the i-th character of the format on, argNum the next
\* operand: text as it is, %% a percent sign, a verb its operand, a verb with
\* no operand left %!verb(MISSING), a percent sign at the end %!(NOVERB), and
\* the operands left over %!(EXTRA ...)
doPrintf(format, i, a, argNum) ==
    IF i > Len(format)
    THEN IF argNum <= Len(a)
         THEN <<"%", "!", "(", "E", "X", "T", "R", "A", " ">> \o extraArgs(a, argNum) \o <<")">>
         ELSE << >>
    ELSE IF format[i] # "%" THEN <<format[i]>> \o doPrintf(format, i + 1, a, argNum)
    ELSE IF i = Len(format) THEN <<"%", "!", "(", "N", "O", "V", "E", "R", "B", ")">> \o doPrintf(format, i + 1, a, argNum)
    ELSE IF format[i + 1] = "%" THEN <<"%">> \o doPrintf(format, i + 2, a, argNum)
    ELSE IF argNum > Len(a)
    THEN <<"%", "!", format[i + 1]>> \o <<"(", "M", "I", "S", "S", "I", "N", "G", ")">> \o doPrintf(format, i + 2, a, argNum)
    ELSE printArg(a[argNum], format[i + 1]) \o doPrintf(format, i + 2, a, argNum + 1)

Sprintf(format, a) == doPrintf(format, 1, a, 1)

\* e.eval on args[i], args[i+1], ... in turn, each on the store the one before
\* left; acc holds the values so far
evalParams(args, acc, vs, now) ==
    IF Len(args) = 0 THEN [vals |-> acc, vars |-> vs, ok |-> TRUE]
    ELSE LET r == eval(Head(args), vs, now)
         IN  IF r.ok
             THEN evalParams(Tail(args), Append(acc, r.v), r.vars, now)
             ELSE [vals |-> acc, vars |-> r.vars, ok |-> FALSE]

\* the format through getArg (the empty string when it is no string), every
\* other argument through e.eval
sprintf(args, vs, now) ==
    IF Len(args) = 0 THEN Ret(FloatError, vs)
    ELSE LET f == getArg(args[1], vs, now)
         IN  IF ~f.ok THEN f
             ELSE IF Len(args) = 1
             THEN IF IsString(f.v) THEN f ELSE Ret(FloatError, f.vars)
             ELSE LET a == evalParams(Tail(args), << >>, f.vars, now)
                      format == IF IsString(f.v) THEN f.v[2] ELSE << >>
                  IN  IF a.ok THEN Ret(StrV(Sprintf(format, a.vals)), a.vars)
                      ELSE Panic(a.vars)

\* case *ast.CallExpr: the switch on the function name
callBuiltin(name, args, vs, now) ==
    CASE name = Name("setVal") -> setVal(args, vs, now)
      [] name = Name("val") -> val(args, vs, now)
      [] name = Name("substr") -> substr(args, vs, now)
      [] name = Name("time") -> time(args, vs, now)
      [] name = Name("ifExpr") -> ifExpr(args, vs, now)
      [] name = Name("abs") -> abs(args, vs, now)
      [] name = Name("sqrt") -> sqrt(args, vs, now)
      [] name = Name("float64") -> float64(args, vs, now)
      [] name = Name("int") -> int(args, vs, now)
      [] name = Name("env") -> env(args, vs, now)
      [] name = Name("isNaN") -> isNaN(args, vs, now)
      [] name = Name("pow") -> pow(args, vs, now)
      [] name = Name("min") -> avgMaxMin(args, 1, vs, now)
      [] name = Name("max") -> avgMaxMin(args, 2, vs, now)
      [] name = Name("avg") -> avgMaxMin(args, 3, vs, now)
      [] name = Name("isBetween") -> isBetween(args, vs, now)
      [] name = Name("sprintf") -> sprintf(args, vs, now)
      [] OTHER -> Ret(FloatError, vs)

\* evalFunctionName, then the switch
evalCall(e, vs, now) ==
    IF ~IsIdent(e[2]) THEN Panic(vs)
    ELSE callBuiltin(e[2][2], e[3], vs, now)

evalUnary(e, vs, now) ==
    IF e[2] \in {"ADD", "SUB"}
    THEN LET x == eval(e[3], vs, now)
         IN  IF x.ok THEN Ret(UnaryValue(e[2], x.v), x.vars) ELSE x
    ELSE Ret(FloatError, vs)

eval(e, vs, now) ==
    CASE e[1] = "UnaryExpr" -> evalUnary(e, vs, now)
      [] e[1] = "ParenExpr" -> eval(e[2], vs, now)
      [] e[1] = "BinaryExpr" -> evalBinaryExpr(e, vs, now)
      [] e[1] = "BasicLit" -> Ret(LitValue(e[2], e[3]), vs)
      [] e[1] = "CallExpr" -> evalCall(e, vs, now)
      [] e[1] = "Ident" -> Ret(IdentValue(e[2], vs), vs)
      [] OTHER -> Ret(FloatError, vs)

----------------------------------------------------------------------------
(* The Eval instance.                                                      *)
(*                                                                         *)
(*   input      e.input: the text to evaluate.  A text is kept as the tree *)
(*              go/parser reads from it and the defect of the text:        *)
(*              "none" (well-formed), "unclosed" (the closing parenthesis  *)
(*              of the outermost call is missing), "trailing" (a           *)
(*              well-formed expression followed by a stray token) or       *)
(*              "bad" (no expression at all, as in "" and ";")             *)
(*   exp        e.exp: the tree of the last ParseExpr, nil before the first*)
(*   variables  e.variables                                                *)
(*   perr       what the last ParseExpr returned: "none" before the first, *)
(*              "nil" or "error"                                           *)
(*   result     what the last Run returned                                 *)
(*   status     "new", "returned" (the last Run returned) or "aborted"     *)
(*              (the last Run panicked)                                    *)
(*   ran        the tree the last Run was given                            *)

Text(tree, defect) == [tree |-> tree, defect |-> defect]

\* parser.ParseExpr(e.input): the tree comes back with the error, also the
\* partial tree of a text that is not well-formed
parserParseExpr(text) ==
    [exp |-> text.tree, err |-> IF text.defect = "none" THEN "nil" ELSE "error"]

\* New(input), followed or not by Variables(seed)
New(text, seed) ==
    /\ input = text
    /\ exp = NilExpr
    /\ variables = seed
    /\ perr = "none"
    /\ result = NilV
    /\ status = "new"
    /\ ran = NilExpr
    /\ cpu \in Cpus

\* SetInput that also drops the parsed tree
SetInputDropsTree(text) ==
    /\ status # "aborted"
    /\ input' = text
    /\ exp' = NilExpr
    /\ UNCHANGED <<variables, perr, result, status, ran, cpu>>

SetInput(text) ==
    /\ status # "aborted"
    /\ input' = text
    /\ UNCHANGED <<exp, variables, perr, result, status, ran, cpu>>

ParseExpr ==
    /\ status # "aborted"
    /\ exp' = parserParseExpr(input).exp
    /\ perr' = parserParseExpr(input).err
    /\ UNCHANGED <<input, variables, result, status, ran, cpu>>

\* Run with the clock showing now
RunAt(now) ==
    LET r == eval(exp, variables, now)
    IN  /\ status # "aborted"
        /\ variables' = r.vars
        /\ result' = r.v
        /\ status' = IF r.ok THEN "returned" ELSE "aborted"
        /\ ran' = exp
        /\ UNCHANGED <<input, exp, perr, cpu>>

Run == \E now \in 0..MaxClock : RunAt(now)

----------------------------------------------------------------------------
(* The texts the specifications draw their inputs from.                    *)

\* the text of a string literal holds its quote characters
Quoted(s) == <<DQ>> \o s \o <<DQ>>
Str(s) == BasicLit("STRING", Quoted(s))
IntLit(text) == BasicLit("INT", text)
FloatLit(text) == BasicLit("FLOAT", text)
Neg(x) == UnaryExpr("SUB", x)
Call(name, args) == CallExpr(Ident(Name(name)), args)
WellFormed(tree) == Text(tree, "none")

KeyA == <<"a">>
KeyB == <<"b">>
Keys == {KeyA, KeyB}

SetValCall(k, v) == Call("setVal", <<Str(k), v>>)
ValCall(k) == Call("val", <<Str(k)>>)

\* value expressions with the value each denotes: a Bool, an Int, a Float, a
\* String (the text between the literal's quotes) and the empty String
ValueTable ==
    << <<Ident(TrueName), BoolV(TRUE)>>,
       <<IntLit(<<"7">>), IntV(7)>>,
       <<FloatLit(<<"1", ".", "5">>), Fin(3, 2)>>,
       <<Str(<<"x", "y">>), StrV(<<"x", "y">>)>>,
       <<Str(<< >>), StrV(<< >>)>> >>

ValueExprs == {ValueTable[j][1] : j \in 1..Len(ValueTable)}

\* setVal("k", v) and val("k") on two keys
StoreTexts ==
    {WellFormed(SetValCall(k, v)) : k \in Keys, v \in ValueExprs}
        \cup {WellFormed(ValCall(k)) : k \in Keys}

\* the stores an instance starts with: none, or one a caller handed to Variables
SeedStores == {NilMap, MapOf(KeyB :> IntV(0))}

InitStore == \E text \in StoreTexts, seed \in SeedStores : New(text, seed)

SetInputStore == \E text \in StoreTexts : SetInput(text)

NextStore == SetInputStore \/ ParseExpr \/ Run

SpecStore == InitStore /\ [][NextStore]_vars

\* the texts of the default specification: well-formed and malformed ones,
\* calls that write the store, read the clock or slice a string
TimeCall(which, format) == Call("time", <<Str(which), Str(format)>>)
SubstrCall(text, start, len) == Call("substr", <<Str(text), start, len>>)
Abc == <<"a", "b", "c">>

Texts ==
    { WellFormed(IntLit(<<"7">>)),
      WellFormed(SetValCall(KeyA, IntLit(<<"1">>))),
      WellFormed(ParenExpr(SetValCall(KeyB, Ident(TrueName)))),
      Text(SetValCall(KeyA, Str(<<"x">>)), "unclosed"),
      Text(Ident(KeyA), "trailing"),
      Text(BadExpr, "bad"),
      WellFormed(ValCall(KeyA)),
      WellFormed(TimeCall(<< >>, << >>)),
      WellFormed(TimeCall(NowText, <<"r", "f", "c", "3", "3", "3", "9">>)),
      WellFormed(ParenExpr(TimeCall(StartTime, Epoch))),
      WellFormed(SubstrCall(Abc, IntLit(<<"1">>), Neg(IntLit(<<"1">>)))),
      WellFormed(SubstrCall(Abc, Neg(IntLit(<<"2">>)), Neg(IntLit(<<"2">>)))),
      WellFormed(CallExpr(ParenExpr(Ident(Name("val"))), <<Str(KeyA)>>)),
      WellFormed(Call("ifExpr", <<BinaryExpr("EQL", Ident(KeyA), IntLit(<<"1">>)),
                                  TimeCall(<< >>, Epoch),
                                  SetValCall(KeyB, FloatLit(<<"1", ".", "5">>))>>)) }

Init == \E text \in Texts, seed \in SeedStores : New(text, seed)

SetInputAny == \E text \in Texts : SetInput(text)

Next == SetInputAny \/ ParseExpr \/ Run

Spec == Init /\ [][Next]_vars


\* New(text), ParseExpr, Run: how the tests and cmd/calc drive one instance
NextOnce == ParseExpr \/ Run

\* operands of the arithmetic operators with the value each evaluates to: Ints
\* and Floats of either sign, both zeros, both infinities, a Bool, a numeric
\* String, and three ways to NaN (an unknown variable, an unknown function, an
\* ill-typed sub-expression)
Digit(n) == <<Digits[n + 1]>>
Unknown == Ident(<<"u">>)
One == IntLit(<<"1">>)
Zero == IntLit(<<"0">>)

IntOperands ==
    {<<IntLit(Digit(n)), IntV(n)>> : n \in 0..MaxOperand}
        \cup {<<Neg(IntLit(Digit(n))), IntV(-n)>> : n \in 1..MaxOperand}
        \cup {<<ParenExpr(BinaryExpr("SUB", One, One)), IntV(0)>>}

FloatOperands ==
    { <<FloatLit(<<"0", ".", "0">>), Fin(0, 1)>>,
      <<FloatLit(<<"1", ".", "5">>), Fin(3, 2)>>,
      <<Neg(FloatLit(<<".", "5">>)), Fin(-1, 2)>>,
      <<ParenExpr(BinaryExpr("QUO", One, Zero)), PosInf>>,
      <<Neg(ParenExpr(BinaryExpr("QUO", One, Zero))), NegInf>> }

NaNOperands ==
    { <<Unknown, NaN>>,
      <<CallExpr(Ident(<<"f", "o", "o">>), << >>), NaN>>,
      <<ParenExpr(BinaryExpr("ADD", Ident(TrueName), One)), NaN>> }

OtherOperands ==
    { <<Ident(FalseName), BoolV(FALSE)>>,
      <<Str(<<"3">>), StrV(<<"3">>)>> }

Operands == IntOperands \cup FloatOperands \cup NaNOperands \cup OtherOperands

ArithOps == {"ADD", "SUB", "MUL", "QUO"}

ArithTexts ==
    {WellFormed(BinaryExpr(op, a[1], b[1])) : op \in ArithOps, a \in Operands, b \in Operands}

InitArith == \E text \in ArithTexts : New(text, NilMap)

SpecArith == InitArith /\ [][NextOnce]_vars

\* the texts the Go scanner reads as one number: over the characters below, at
\* most MaxLitLen of them.  An INT is 0, a decimal, a 0x hexadecimal or a
\* legacy octal (0 and octal digits), with an underscore allowed before any
\* digit but the first; a FLOAT is here a plain decimal with one dot.
LitAlphabet == {"0", "1", "7", "x", "_", "."}

SeqsUpTo(n) == UNION {[1..k -> LitAlphabet] : k \in 1..n}

\* s[from..] is (_? digit)+
SepDigits(s, from) ==
    /\ from <= Len(s)
    /\ \A i \in from..Len(s) :
          \/ IsDigit(s[i])
          \/ s[i] = "_" /\ i < Len(s) /\ IsDigit(s[i + 1])

IsGoIntLit(s) ==
    /\ Len(s) > 0
    /\ IsDigit(s[1])
    /\ \/ Len(s) = 1
       \/ s[1] # "0" /\ SepDigits(s, 2)
       \/ s[1] = "0" /\ s[2] = "x" /\ SepDigits(s, 3)
       \/ s[1] = "0" /\ s[2] # "x" /\ SepDigits(s, 2)

IsGoFloatLit(s) == PlainDecimal(s)

LitTexts == {s \in SeqsUpTo(MaxLitLen) : IsGoIntLit(s) \/ IsGoFloatLit(s)}

\* the token kind the scanner gives the text
LitKind(s) == IF \E i \in 1..Len(s) : s[i] = "." THEN "FLOAT" ELSE "INT"

InitLit == \E s \in LitTexts : New(WellFormed(BasicLit(LitKind(s), s)), NilMap)

SpecLit == InitLit /\ [][NextOnce]_vars

----------------------------------------------------------------------------
(* Comparison, logical and bitwise operators: one binary expression over    *)
(* the operands below, on a store that holds the string a under the key a.  *)

LogicStore == MapOf(KeyA :> StrV(<<"a">>))

LogicOperands ==
    IntOperands
        \cup { <<FloatLit(<<"0", ".", "0">>), Fin(0, 1)>>,
               <<FloatLit(<<"1", ".", "0">>), Fin(1, 1)>>,
               <<FloatLit(<<"1", ".", "5">>), Fin(3, 2)>>,
               <<Unknown, NaN>>,
               <<Ident(TrueName), BoolV(TRUE)>>,
               <<Ident(FalseName), BoolV(FALSE)>>,
               <<Str(<<"3">>), StrV(<<"3">>)>>,
               <<Str(<<"a">>), StrV(<<"a">>)>>,
               <<Ident(KeyA), StrV(<<"a">>)>> }

CompareOps == {"EQL", "NEQ", "LSS", "GTR", "LEQ", "GEQ"}
LogicalOps == {"LAND", "LOR"}
BitOps == {"OR", "AND"}

LogicTexts ==
    {WellFormed(BinaryExpr(op, a[1], b[1])) :
        op \in CompareOps \cup LogicalOps \cup BitOps, a \in LogicOperands, b \in LogicOperands}

InitLogic == \E text \in LogicTexts : New(text, LogicStore)

SpecLogic == InitLogic /\ [][NextOnce]_vars

----------------------------------------------------------------------------
(* Name resolution: an identifier, or a val call, on a store that is nil,  *)
(* empty, or holds values under x and under the names true and false.      *)

KeyX == <<"x">>
KeyY == <<"y">>

StoredValues ==
    {BoolV(FALSE), IntV(0), IntV(7), Fin(3, 2), NaN, StrV(<< >>), StrV(<<"x", "y">>)}

NameStores ==
    {NilMap, MapOf(<< >>)}
        \cup {MapOf(KeyX :> v) : v \in StoredValues}
        \cup {MapOf((TrueName :> v) @@ (FalseName :> w)) : v, w \in StoredValues}

NameKeys == {KeyX, KeyY, TrueName, FalseName}

NameTexts ==
    {WellFormed(Ident(k)) : k \in NameKeys}
        \cup {WellFormed(Call("val", <<Str(k)>>)) : k \in NameKeys}
        \cup {WellFormed(ParenExpr(Ident(k))) : k \in NameKeys}

InitNames == \E text \in NameTexts : \E seed \in NameStores : New(text, seed)

SpecNames == InitNames /\ [][NextOnce]_vars

----------------------------------------------------------------------------
(* Calls of the built-ins with zero to MaxArgs arguments, on a store that   *)
(* holds 5 under the key H.                                                 *)

MaxArgs == 3

KeyH == <<"H">>

\* the number of arguments each built-in is declared with
Arity ==
    [abs |-> 1, sqrt |-> 1, float64 |-> 1, int |-> 1, env |-> 1, val |-> 1,
     isNaN |-> 1, pow |-> 2, time |-> 2, substr |-> 3, ifExpr |-> 3, isBetween |-> 3]

Builtins == DOMAIN Arity

FirstArgs == {IntLit(<<"7">>), Str(KeyH), Ident(TrueName)}

\* argument lists of every length up to MaxArgs: a first argument, then 1s
ArgLists ==
    {<< >>} \cup {<<x>> \o [i \in 1..k |-> One] : x \in FirstArgs, k \in 0..(MaxArgs - 1)}

ArityTexts == {WellFormed(Call(f, args)) : f \in Builtins, args \in ArgLists}

InitArity == \E text \in ArityTexts : New(text, MapOf(KeyH :> IntV(5)))

SpecArity == InitArity /\ [][NextOnce]_vars

----------------------------------------------------------------------------
(* substr on every string over a, b, c of up to MaxStrLen characters, with *)
(* Int start and len from -MaxIndex to MaxIndex.                           *)

MaxStrLen == 3
MaxIndex == 4

IntTree(n) == IF n < 0 THEN Neg(IntLit(Digit(-n))) ELSE IntLit(Digit(n))

\* abcab...: MaxStrLen characters
Letters == [i \in 1..MaxStrLen |-> Abc[((i - 1) % 3) + 1]]

SubstrStrings == {SubSeq(Letters, 1, k) : k \in 0..MaxStrLen} \cup {<<"b", "b">>}

Indexes == (-MaxIndex)..MaxIndex

SubstrTexts ==
    {WellFormed(SubstrCall(s, IntTree(a), IntTree(n))) :
        s \in SubstrStrings, a \in Indexes, n \in Indexes}

InitSubstr == \E text \in SubstrTexts : New(text, NilMap)

SpecSubstr == InitSubstr /\ [][NextOnce]_vars

----------------------------------------------------------------------------
(* The built-ins of one argument on the operands below: the tree, the      *)
(* value it evaluates to, and the number that value denotes (NaN when it   *)
(* denotes none; 1 and 0 for the Bools).                                   *)

UnaryOperands ==
    { <<Zero, IntV(0), Fin(0, 1)>>,
      <<IntLit(<<"2">>), IntV(2), Fin(2, 1)>>,
      <<IntLit(<<"1", "6">>), IntV(16), Fin(16, 1)>>,
      <<Neg(IntLit(<<"4">>)), IntV(-4), Fin(-4, 1)>>,
      <<FloatLit(<<"2", ".", "2", "5">>), Fin(9, 4), Fin(9, 4)>>,
      <<ParenExpr(BinaryExpr("QUO", One, Zero)), PosInf, PosInf>>,
      <<Neg(ParenExpr(BinaryExpr("QUO", One, Zero))), NegInf, NegInf>>,
      <<Unknown, NaN, NaN>>,
      <<ParenExpr(BinaryExpr("ADD", Ident(TrueName), One)), NaN, NaN>>,
      <<Str(<<"1", "6">>), StrV(<<"1", "6">>), Fin(16, 1)>>,
      <<Str(<<"2", ".", "2", "5">>), StrV(<<"2", ".", "2", "5">>), Fin(9, 4)>>,
      <<Str(<<"-", "4">>), StrV(<<"-", "4">>), Fin(-4, 1)>>,
      <<Str(<<"N", "a", "N">>), StrV(<<"N", "a", "N">>), NaN>>,
      <<Str(Abc), StrV(Abc), NaN>>,
      <<Str(<< >>), StrV(<< >>), NaN>>,
      <<Ident(TrueName), BoolV(TRUE), Fin(1, 1)>>,
      <<Ident(FalseName), BoolV(FALSE), Fin(0, 1)>> }

UnaryBuiltins == {"sqrt", "isNaN", "abs", "float64"}

UnaryTexts == {WellFormed(Call(f, <<a[1]>>)) : f \in UnaryBuiltins, a \in UnaryOperands}

InitUnary == \E text \in UnaryTexts : New(text, NilMap)

SpecUnary == InitUnary /\ [][NextOnce]_vars

----------------------------------------------------------------------------
(* pow on every pair of the bases and the exponents below; the last        *)
(* component tells whether the operand is an Int, a Float or a numeric     *)
(* string.                                                                 *)

BadOperands ==
    { <<Ident(TrueName), BoolV(TRUE), FALSE>>,
      <<Str(Abc), StrV(Abc), FALSE>>,
      <<Unknown, NaN, FALSE>> }

PowBases ==
    BadOperands
        \cup { <<Zero, IntV(0), TRUE>>,
               <<One, IntV(1), TRUE>>,
               <<IntLit(<<"2">>), IntV(2), TRUE>>,
               <<Neg(IntLit(<<"2">>)), IntV(-2), TRUE>>,
               <<FloatLit(<<"2", ".", "2", "5">>), Fin(9, 4), TRUE>>,
               <<Str(<<"2">>), StrV(<<"2">>), TRUE>> }

PowExponents ==
    BadOperands
        \cup { <<Zero, IntV(0), TRUE>>,
               <<One, IntV(1), TRUE>>,
               <<IntLit(<<"2">>), IntV(2), TRUE>>,
               <<Neg(One), IntV(-1), TRUE>>,
               <<FloatLit(<<"0", ".", "5">>), Fin(1, 2), TRUE>>,
               <<Str(<<"2">>), StrV(<<"2">>), TRUE>> }

PowTexts == {WellFormed(Call("pow", <<x[1], y[1]>>)) : x \in PowBases, y \in PowExponents}

InitPow == \E text \in PowTexts : New(text, NilMap)

SpecPow == InitPow /\ [][NextOnce]_vars

----------------------------------------------------------------------------
(* min, max and avg on every list of up to MaxReduceArgs of the operands   *)
(* below: the tree, the value it evaluates to, whether the reduction uses  *)
(* it, and the number it stands for.                                       *)

MaxReduceArgs == 3

ReduceOperands ==
    { <<IntLit(<<"2">>), IntV(2), TRUE, Fin(2, 1)>>,
      <<Neg(IntLit(<<"3">>)), IntV(-3), TRUE, Fin(-3, 1)>>,
      <<FloatLit(<<"1", ".", "5">>), Fin(3, 2), TRUE, Fin(3, 2)>>,
      <<Str(<<"1", "0">>), StrV(<<"1", "0">>), TRUE, Fin(10, 1)>>,
      <<Unknown, NaN, TRUE, NaN>>,
      <<Str(Abc), StrV(Abc), FALSE, NaN>>,
      <<Ident(TrueName), BoolV(TRUE), FALSE, NaN>> }

ReduceBuiltins == {"min", "max", "avg"}

ReduceArgLists == UNION {[1..k -> {a[1] : a \in ReduceOperands}] : k \in 0..MaxReduceArgs}

ReduceTexts == {WellFormed(Call(f, args)) : f \in ReduceBuiltins, args \in ReduceArgLists}

InitReduce == \E text \in ReduceTexts : New(text, NilMap)

SpecReduce == InitReduce /\ [][NextOnce]_vars

----------------------------------------------------------------------------
(* isBetween on two and on three of the operands below: the tree, the      *)
(* value it evaluates to, and the number it stands for (NaN when it stands *)
(* for none).                                                              *)

BetweenOperands ==
    { <<Zero, IntV(0), Fin(0, 1)>>,
      <<One, IntV(1), Fin(1, 1)>>,
      <<Neg(One), IntV(-1), Fin(-1, 1)>>,
      <<FloatLit(<<"1", ".", "5">>), Fin(3, 2), Fin(3, 2)>>,
      <<Str(<<"1">>), StrV(<<"1">>), Fin(1, 1)>>,
      <<ParenExpr(BinaryExpr("QUO", One, Zero)), PosInf, PosInf>>,
      <<Unknown, NaN, NaN>>,
      <<Str(Abc), StrV(Abc), NaN>>,
      <<Str(<< >>), StrV(<< >>), NaN>>,
      <<Ident(TrueName), BoolV(TRUE), NaN>> }

BetweenTexts ==
    {WellFormed(Call("isBetween", <<v[1], lo[1], hi[1]>>)) :
        v \in BetweenOperands, lo \in BetweenOperands, hi \in BetweenOperands}
        \cup {WellFormed(Call("isBetween", <<v[1], lo[1]>>)) :
                 v \in BetweenOperands, lo \in BetweenOperands}

InitBetween == \E text \in BetweenTexts : New(text, NilMap)

SpecBetween == InitBetween /\ [][NextOnce]_vars

----------------------------------------------------------------------------
(* ifExpr on every condition and every pair of branches below: the tree    *)
(* and the value it evaluates to, a string without its quotes.             *)

IfConditions ==
    { <<Ident(TrueName), BoolV(TRUE)>>,
      <<Ident(FalseName), BoolV(FALSE)>>,
      <<BinaryExpr("EQL", One, One), BoolV(TRUE)>>,
      <<BinaryExpr("LSS", One, Zero), BoolV(FALSE)>>,
      <<One, IntV(1)>>,
      <<FloatLit(<<"1", ".", "5">>), Fin(3, 2)>>,
      <<Str(<<"a">>), StrV(<<"a">>)>>,
      <<Unknown, NaN>> }

IfBranches ==
    { <<IntLit(<<"7">>), IntV(7)>>,
      <<BinaryExpr("MUL", Neg(IntLit(<<"8">>)), IntLit(<<"4">>)), IntV(-32)>>,
      <<FloatLit(<<"1", ".", "5">>), Fin(3, 2)>>,
      <<Str(<<"O", "K">>), StrV(<<"O", "K">>)>>,
      <<Ident(FalseName), BoolV(FALSE)>>,
      <<Unknown, NaN>> }

IfTexts ==
    {WellFormed(Call("ifExpr", <<c[1], a[1], b[1]>>)) :
        c \in IfConditions, a \in IfBranches, b \in IfBranches}

InitIf == \E text \in IfTexts : New(text, NilMap)

SpecIf == InitIf /\ [][NextOnce]_vars

----------------------------------------------------------------------------
(* int and float64 on each of the operands below and on no argument.  An   *)
(* operand is its tree, the Int it denotes and the Float it denotes (NaN   *)
(* where it denotes none).                                                 *)

CastOperands ==
    { <<Ident(TrueName), IntV(1), Fin(1, 1)>>,
      <<Ident(FalseName), IntV(0), Fin(0, 1)>>,
      <<Zero, IntV(0), Fin(0, 1)>>,
      <<Neg(IntLit(<<"4">>)), IntV(-4), Fin(-4, 1)>>,
      <<FloatLit(<<"1", ".", "9">>), IntV(1), Fin(19, 10)>>,
      <<Neg(FloatLit(<<"1", ".", "9">>)), IntV(-1), Fin(-19, 10)>>,
      <<Str(<<"1", "6">>), IntV(16), Fin(16, 1)>>,
      <<Str(<<"-", "6", ".", "7">>), IntV(-6), Fin(-67, 10)>>,
      <<Str(Abc), NaN, NaN>>,
      <<Str(<< >>), NaN, NaN>>,
      <<Unknown, NaN, NaN>>,
      <<Str(<<"N", "a", "N">>), NaN, NaN>>,
      <<ParenExpr(BinaryExpr("QUO", One, Zero)), NaN, PosInf>>,
      <<Neg(ParenExpr(BinaryExpr("QUO", One, Zero))), NaN, NegInf>> }

CastBuiltins == {"int", "float64"}

CastTexts ==
    {WellFormed(Call(f, <<a[1]>>)) : f \in CastBuiltins, a \in CastOperands}
        \cup {WellFormed(Call(f, << >>)) : f \in CastBuiltins}

InitCast == \E text \in CastTexts : New(text, NilMap)

SpecCast == InitCast /\ [][NextOnce]_vars


----------------------------------------------------------------------------
(* sprintf on each of the formats below and up to MaxParams of the         *)
(* operands, the store holding the string abc under H.  An operand is its  *)
(* tree and the value it denotes, a string being its text.                 *)

MaxParams == 2

SprintfStore == MapOf(KeyH :> StrV(Abc))

SprintfFormats ==
    { <<"%", "s">>, <<"%", "d">>, <<"%", "t">>, <<"%", "v">>, <<"a">>,
      <<"%", "s", ",", "%", "d">>, <<"%">>, <<"%", "%">>, << >> }

SprintfOperands ==
    { <<Str(Abc), StrV(Abc)>>,
      <<Ident(KeyH), StrV(Abc)>>,
      <<ValCall(KeyH), StrV(Abc)>>,
      <<Neg(IntLit(<<"1", "5">>)), IntV(-15)>>,
      <<Ident(TrueName), BoolV(TRUE)>>,
      <<Unknown, NaN>> }

SprintfParams ==
    UNION {[1..n -> {a[1] : a \in SprintfOperands}] : n \in 0..MaxParams}

SprintfTexts ==
    {WellFormed(Call("sprintf", <<Str(f)>> \o a)) : f \in SprintfFormats, a \in SprintfParams}
        \cup {WellFormed(Call("sprintf", a)) : a \in SprintfParams}

InitSprintf == \E text \in SprintfTexts : New(text, SprintfStore)

SpecSprintf == InitSprintf /\ [][NextOnce]_vars


----------------------------------------------------------------------------
(* setVal on every list of at most MaxPairArgs of the arguments below, on  *)
(* the store that was never made and on the empty one.  An argument is its *)
(* tree and the value it denotes.                                          *)

MaxPairArgs == 4

PairOperands ==
    { <<Str(KeyA), StrV(KeyA)>>,
      <<Str(KeyB), StrV(KeyB)>>,
      <<One, IntV(1)>>,
      <<Ident(TrueName), BoolV(TRUE)>> }

PairArgLists ==
    UNION {[1..n -> {a[1] : a \in PairOperands}] : n \in 0..MaxPairArgs}

PairTexts == {WellFormed(Call("setVal", a)) : a \in PairArgLists}

InitPairs == \E text \in PairTexts : \E seed \in {NilMap, MapOf(<< >>)} : New(text, seed)

SpecPairs == InitPairs /\ [][NextOnce]_vars


----------------------------------------------------------------------------
(* ifExpr on every three, and every binary operator on every two, of the   *)
(* operands below, on the store that was never made and on the empty one.  *)
(* An operand is its tree and the entries a setVal call in it writes.      *)

EffectOperands ==
    { <<Ident(TrueName), << >> >>,
      <<Ident(FalseName), << >> >>,
      <<One, << >> >>,
      <<SetValCall(KeyA, One), KeyA :> IntV(1)>>,
      <<SetValCall(KeyA, IntLit(<<"2">>)), KeyA :> IntV(2)>>,
      <<SetValCall(KeyB, One), KeyB :> IntV(1)>> }

EffectTrees == {a[1] : a \in EffectOperands}

EffectTexts ==
    {WellFormed(Call("ifExpr", <<c, x, y>>)) : c \in EffectTrees, x \in EffectTrees, y \in EffectTrees}
        \cup {WellFormed(BinaryExpr(op, x, y)) :
                op \in ArithOps \cup CompareOps \cup LogicalOps \cup BitOps,
                x \in EffectTrees, y \in EffectTrees}

InitEffects == \E text \in EffectTexts : \E seed \in {NilMap, MapOf(<< >>)} : New(text, seed)

SpecEffects == InitEffects /\ [][NextOnce]_vars


----------------------------------------------------------------------------
(* setVal on every list of at most MaxSetValArgs of the arguments below,   *)
(* on a store that holds the counter n = 0.  A probe is a nested setVal    *)
(* call that stores the counter under its own key and then adds 1 to the   *)
(* counter; a reader is one that stores what it finds under a.             *)

MaxSetValArgs == 3

\* Run is taken while the counter is below this
MaxCount == 2

KeyN == <<"n">>
KeyP == <<"p">>
KeyQ == <<"q">>
KeyR == <<"r">>
KeyS == <<"s">>

Probe(k) ==
    Call("setVal", <<Str(k), Ident(KeyN), Str(KeyN), BinaryExpr("ADD", Ident(KeyN), One)>>)

\* a probe, and the key it stores under
ProbeKeys == {<<Probe(KeyP), KeyP>>, <<Probe(KeyQ), KeyQ>>}

Probes == {p[1] : p \in ProbeKeys}

\* a reader, and the key it stores under
Readers ==
    { <<SetValCall(KeyR, Ident(KeyA)), KeyR>>,
      <<SetValCall(KeyS, ValCall(KeyA)), KeyS>> }

SetValArgs == {Str(KeyA), One} \cup Probes \cup {r[1] : r \in Readers}

SetValArgLists == UNION {[1..n -> SetValArgs] : n \in 0..MaxSetValArgs}

SetValTexts == {WellFormed(Call("setVal", a)) : a \in SetValArgLists}

InitSetVal == \E text \in SetValTexts : New(text, MapOf(KeyN :> IntV(0)))

RunBelow == variables.m[KeyN][2] < MaxCount /\ Run

NextSetVal == ParseExpr \/ RunBelow

SpecSetVal == InitSetVal /\ [][NextSetVal]_vars


----------------------------------------------------------------------------
(* stringer on every string of at most MaxQuoted quote characters and      *)
(* letters a: the string is held under x and sprintf(x), which returns its *)
(* one argument as getArg gives it, is run.                                *)

MaxQuoted == 4

QuotedStrings == UNION {[1..n -> {DQ, "a"}] : n \in 0..MaxQuoted}

QuotedText == WellFormed(Call("sprintf", <<Ident(KeyX)>>))

InitQuoted == \E s \in QuotedStrings : New(QuotedText, MapOf(KeyX :> StrV(s)))

SpecQuoted == InitQuoted /\ [][NextOnce]_vars


----------------------------------------------------------------------------
(* The claims.                                                             *)

C2_NoEntryRemoved ==
    [][/\ \A k \in DOMAIN variables.m : k \in DOMAIN variables'.m
       /\ ~variables.nil => ~variables'.nil]_vars

\* a Run has written key "a" into a store that held key "b", and both are there
C2_Witness ==
    /\ status = "returned"
    /\ ran = SetValCall(KeyA, IntLit(<<"1">>))
    /\ DOMAIN variables.m = {KeyA, KeyB}

\* C3: when ParseExpr has reported a failure for the current input, a Run
\* that follows evaluates no part of the malformed input: no setVal inside it
\* writes to the variable store
C3_NoPartialTreeEvaluated ==
    [][(/\ perr = "error"
        /\ parserParseExpr(input).err = "error"
        /\ exp = parserParseExpr(input).exp
        /\ Run) => variables' = variables]_vars

\* C4: every Run evaluates the tree of the current input text, whether or not
\* a ParseExpr came between the SetInput and the Run
C4_RunEvaluatesCurrentInput ==
    [][(exp # NilExpr /\ Run) => ran' = parserParseExpr(input).exp]_vars

\* C4, amended: the parsed tree stays until the next ParseExpr.  SetInput
\* leaves it alone, ParseExpr makes it the tree of the current input, and
\* every Run evaluates it, whatever the input text has become since
C4_RunEvaluatesLastParsed ==
    [][/\ input' # input => exp' = exp
       /\ exp' # exp => exp' = parserParseExpr(input).exp
       /\ Run => ran' = exp]_vars

\* a Run has evaluated the tree of an earlier input: the input was replaced
\* after the last ParseExpr
C4_Witness ==
    /\ status = "returned"
    /\ ran = IntLit(<<"7">>)
    /\ result = IntV(7)
    /\ exp = ran
    /\ input = WellFormed(ValCall(KeyA))

\* C5: Run never aborts, whatever tree the parser accepted
C5_RunNeverAborts == status # "aborted"

\* the tree inside any number of parentheses
Unparen(e) == IF e[1] = "ParenExpr" THEN Unparen(e[2]) ELSE e

IsCallOf(e, name) == e[1] = "CallExpr" /\ e[2] = Ident(Name(name))

BasicTypes == {"bool", "int", "float", "string"}

\* C6: the value a Run returns is a Bool, an Int, a Float or a String
C6_ResultIsBasicValue == status = "returned" => result[1] \in BasicTypes

\* C6, amended: the value a Run returns is a Bool, an Int, a Float or a
\* String, except that a setVal call at the top of the tree (in parentheses
\* or not) returns nil and a time call at the top of the tree returns an
\* int64 for the epoch format
C6_ResultKinds ==
    status = "returned" =>
        \/ result[1] \in BasicTypes
        \/ result = NilV /\ IsCallOf(Unparen(ran), "setVal")
        \/ result[1] = "int64" /\ IsCallOf(Unparen(ran), "time")

\* a Run of setVal("a", 1) has returned nil
C6_Witness ==
    /\ status = "returned"
    /\ ran = SetValCall(KeyA, IntLit(<<"1">>))
    /\ result = NilV

\* the operands that are an Int or a Float other than NaN, and the zeros
IsNumber(v) == IsInt(v) \/ (IsFloat(v) /\ ~IsNaN(v))
IsZero(v) == v = IntV(0) \/ v = Fin(0, 1)

\* C7: x / 0 is +Inf for every Int or Float x, negative, zero or positive,
\* and for the Int 0 and the Float 0 as divisor
C7_DivisionByZero ==
    \A a \in Operands : \A b \in Operands :
        (/\ IsNumber(a[2]) /\ IsZero(b[2])
         /\ status = "returned"
         /\ ran = BinaryExpr("QUO", a[1], b[1]))
        => result = PosInf

\* a Run of -2 / (1-1) has returned +Inf
C7_Witness ==
    /\ status = "returned"
    /\ ran = BinaryExpr("QUO", Neg(IntLit(<<"2">>)), ParenExpr(BinaryExpr("SUB", One, One)))
    /\ result = PosInf

\* C8: when one operand of + - * / evaluates to NaN the result is NaN,
\* whatever the other operand is
C8_NaNPropagates ==
    \A op \in ArithOps : \A a \in Operands : \A b \in Operands :
        (/\ IsNaN(a[2]) \/ IsNaN(b[2])
         /\ status = "returned"
         /\ ran = BinaryExpr(op, a[1], b[1]))
        => result = NaN

NotUnderscore(c) == c # "_"

\* the number the digits s denote in the given base
BaseValue(s, base) ==
    IF Len(s) = 0 THEN 0
    ELSE base * BaseValue(SubSeq(s, 1, Len(s) - 1), base) + DigitVal(s[Len(s)])

\* the value the Go language gives an integer literal: underscores do not
\* count, 0x starts a hexadecimal and a leading 0 an octal literal
GoIntValue(s) ==
    LET t == SelectSeq(s, NotUnderscore)
    IN  IF Len(t) > 1 /\ t[2] = "x" THEN BaseValue(SubSeq(t, 3, Len(t)), 16)
        ELSE IF Len(t) > 1 /\ t[1] = "0" THEN BaseValue(t, 8)
        ELSE BaseValue(t, 10)

\* the value of a plain decimal literal: its digits over a power of ten
GoFloatValue(s) ==
    Fin(BaseValue(SelectSeq(s, IsDigit), 10), 10 ^ (Len(s) - DotAt(s)))

\* C9: evaluating a well-formed numeric literal alone returns its value, as
\* an Int for an integer literal and as a Float for a decimal literal
C9_LiteralValue ==
    \A s \in LitTexts :
        (status = "returned" /\ ran = BasicLit(LitKind(s), s))
        => result = IF LitKind(s) = "INT" THEN IntV(GoIntValue(s)) ELSE GoFloatValue(s)

\* r is the float64 of the fraction n/d
IsFraction(r, n, d) == IsFin(r) /\ r[3] * d = n * r[4]

\* numerator and denominator of an Int or a finite Float
Num(v) == IF IsInt(v) THEN v[2] ELSE v[3]
Den(v) == IF IsInt(v) THEN 1 ELSE v[4]
IsFinite(v) == IsInt(v) \/ IsFin(v)

\* what C10 says of the result r of x op y
C10_Expected(op, x, y, r) ==
    IF IsBool(x) \/ IsString(x) \/ IsBool(y) \/ IsString(y) THEN r = NaN
    ELSE IF op = "QUO"
    THEN /\ IsFloat(r)
         /\ (IsFinite(x) /\ IsFinite(y) /\ ~IsZero(y))
                => IsFraction(r, Num(x) * Den(y), Den(x) * Num(y))
    ELSE IF IsInt(x) /\ IsInt(y)
    THEN r = IntV(CASE op = "ADD" -> x[2] + y[2]
                    [] op = "SUB" -> x[2] - y[2]
                    [] op = "MUL" -> x[2] * y[2])
    ELSE /\ IsFloat(r)
         /\ (IsFinite(x) /\ IsFinite(y))
                => CASE op = "ADD" -> IsFraction(r, Num(x) * Den(y) + Num(y) * Den(x), Den(x) * Den(y))
                     [] op = "SUB" -> IsFraction(r, Num(x) * Den(y) - Num(y) * Den(x), Den(x) * Den(y))
                     [] op = "MUL" -> IsFraction(r, Num(x) * Num(y), Den(x) * Den(y))

\* C10: + - * give an Int for two Ints and a Float, with the Int operand
\* promoted, for an Int and a Float or two Floats; / gives a Float for every
\* pair of Int and Float operands, two Ints included; a Bool or a String on
\* either side gives NaN
C10_ArithmeticTyping ==
    \A op \in ArithOps : \A a \in Operands : \A b \in Operands :
        (status = "returned" /\ ran = BinaryExpr(op, a[1], b[1]))
        => C10_Expected(op, a[2], b[2], result)

\* a Run of 2 / -2 on two Ints has returned the Float -1
C10_Witness ==
    /\ status = "returned"
    /\ ran = BinaryExpr("QUO", IntLit(<<"2">>), Neg(IntLit(<<"2">>)))
    /\ result = Fin(-1, 1)

IsNum(v) == IsInt(v) \/ IsFloat(v)

\* the operand types an operator supports
Supported(op, x, y) ==
    \/ op \in CompareOps /\ IsNum(x) /\ IsNum(y)
    \/ op \in {"EQL", "NEQ"} /\ IsBool(x) /\ IsBool(y)
    \/ op \in {"EQL", "NEQ"} /\ IsString(x) /\ IsString(y)
    \/ op \in LogicalOps /\ IsBool(x) /\ IsBool(y)

\* C11: == != < > <= >= return a Bool on every pair of Int and Float operands,
\* == and != also on two Bools and on two Strings (compared by the text
\* without quotes), && and || on two Bools only; every other combination of
\* operand types returns NaN
C11_CompareTyping ==
    \A op \in CompareOps \cup LogicalOps : \A a \in LogicOperands : \A b \in LogicOperands :
        (status = "returned" /\ ran = BinaryExpr(op, a[1], b[1]))
        => /\ Supported(op, a[2], b[2]) => IsBool(result)
           /\ ~Supported(op, a[2], b[2]) => result = NaN
           /\ (op = "EQL" /\ TypeOf(a[2]) = TypeOf(b[2]) /\ ~IsNum(a[2]))
                 => result = BoolV(a[2] = b[2])
           /\ (op = "NEQ" /\ TypeOf(a[2]) = TypeOf(b[2]) /\ ~IsNum(a[2]))
                 => result = BoolV(a[2] # b[2])

\* a Run of a == "a", the stored string against the literal, has returned true
C11_Witness ==
    /\ status = "returned"
    /\ ran = BinaryExpr("EQL", Ident(KeyA), Str(<<"a">>))
    /\ result = BoolV(TRUE)

\* the bits 0..BitWidth-1 of the two's complement of an int
BitWidth == 4
BitsOf(x) == {i \in 0..(BitWidth - 1) : ((x + 2 ^ BitWidth) \div (2 ^ i)) % 2 = 1}

\* C12: | and & return the Int whose bits are the union, for & the
\* intersection, of the bits of two Int operands, and NaN for every other
\* combination: an Int with a Float, two Floats, a Bool or a String on a side
C12_BitwiseOperators ==
    \A op \in BitOps : \A a \in LogicOperands : \A b \in LogicOperands :
        (status = "returned" /\ ran = BinaryExpr(op, a[1], b[1]))
        => IF IsInt(a[2]) /\ IsInt(b[2])
           THEN /\ IsInt(result)
                /\ result[2] \in -(2 ^ (BitWidth - 1))..(2 ^ (BitWidth - 1) - 1)
                /\ BitsOf(result[2]) = IF op = "OR"
                                       THEN BitsOf(a[2][2]) \cup BitsOf(b[2][2])
                                       ELSE BitsOf(a[2][2]) \cap BitsOf(b[2][2])
           ELSE result = NaN

\* a Run of -2 | 1 on two Ints has returned the Int -1
C12_Witness ==
    /\ status = "returned"
    /\ ran = BinaryExpr("OR", Neg(IntLit(<<"2">>)), One)
    /\ result = IntV(-1)

ErrorResult(f) ==
    CASE f \in {"abs", "sqrt", "float64", "int", "pow", "ifExpr"} -> NaN
      [] f \in {"env", "val", "substr", "time"} -> StrV(<< >>)
      [] f = "isBetween" -> BoolV(FALSE)
      [] f = "isNaN" -> BoolV(TRUE)

\* C14: a built-in called with a number of arguments other than its declared
\* arity, more as well as fewer, returns its error result
C14_WrongArity ==
    \A f \in Builtins : \A args \in ArgLists :
        (/\ Len(args) # Arity[f]
         /\ status = "returned"
         /\ ran = Call(f, args))
        => result = ErrorResult(f)

Min(a, b) == IF a < b THEN a ELSE b

\* the index substr starts from: start, or start counted from the end
Begin(s, start) == IF start >= 0 THEN start ELSE Len(s) + start

\* C15: for a non-empty s of length L, an Int start with |start| < L and an
\* Int len that is -1 or at least 1, substr(s, start, len) returns s from
\* index b up to, not including, index e, with b = start or L + start for a
\* negative start and e = L for len = -1 and min(L, b + len) otherwise; for
\* an empty s, len = 0 or |start| >= L it returns ""
C15_Substr ==
    \A s \in SubstrStrings : \A a \in Indexes : \A n \in Indexes :
        ran = SubstrCall(s, IntTree(a), IntTree(n)) =>
            /\ (Len(s) > 0 /\ Abs(a) < Len(s) /\ (n = -1 \/ n >= 1))
                  => /\ status = "returned"
                     /\ result = StrV(SubSeq(s, Begin(s, a) + 1,
                                             IF n = -1 THEN Len(s)
                                             ELSE Min(Len(s), Begin(s, a) + n)))
            /\ (Len(s) = 0 \/ n = 0 \/ Abs(a) >= Len(s))
                  => (status = "returned" /\ result = StrV(<< >>))

\* a Run of substr("abc", -2, 4) has returned bc: the start counted from the
\* end and the length clamped
C15_Witness ==
    /\ status = "returned"
    /\ ran = SubstrCall(Abc, IntTree(-2), IntTree(4))
    /\ result = StrV(<<"b", "c">>)

\* C16: with a len that is negative and not -1, substr(s, start, len) returns
\* "" for a negative start as for a start that is not negative, and does not
\* abort
C16_SubstrNegativeLen ==
    \A s \in SubstrStrings : \A a \in Indexes : \A n \in Indexes :
        (n < -1 /\ ran = SubstrCall(s, IntTree(a), IntTree(n)))
        => (status = "returned" /\ result = StrV(<< >>))

\* C17: sqrt(x) returns the square root of an Int, of a Float and of the
\* number a numeric string denotes (sqrt("16") = 4), and NaN for an argument
\* that is no number
C17_SqrtOfNumericString ==
    \A a \in UnaryOperands :
        (status = "returned" /\ ran = Call("sqrt", <<a[1]>>))
        => result = IF IsBool(a[2]) THEN NaN ELSE FSqrt(a[3])

\* C19: isNaN(x) is true exactly when the number x denotes is NaN: false for
\* both Bools, for every Int, for every Float but NaN and for a string that
\* parses as a number other than NaN; true for NaN, for a string that does
\* not parse as a number and for an unknown variable
C19_IsNaN ==
    \A a \in UnaryOperands :
        (status = "returned" /\ ran = Call("isNaN", <<a[1]>>))
        => result = BoolV(a[3] = NaN)

\* a Run of isNaN(true) has returned false
C19_Witness ==
    /\ status = "returned"
    /\ ran = Call("isNaN", <<Ident(TrueName)>>)
    /\ result = BoolV(FALSE)

\* C18: pow(x, y) returns NaN whenever x or y is no Int, Float or numeric
\* string (a Bool, a string that is no number, an unknown variable), for
\* every other operand, the exponent 0 and the base 1 included
C18_PowBadOperand ==
    \A x \in PowBases : \A y \in PowExponents :
        (/\ ~x[3] \/ ~y[3]
         /\ status = "returned"
         /\ ran = Call("pow", <<x[1], y[1]>>))
        => result = NaN

\* the operand a tree of a reduction stands for, and the numbers of the
\* usable ones among the arguments
OperandOf(tree) == CHOOSE a \in ReduceOperands : a[1] = tree
UsableAt(args) == {i \in 1..Len(args) : OperandOf(args[i])[3]}
NumberAt(args, i) == OperandOf(args[i])[4]

\* twice the sum of finite numbers with the denominators 1 and 2
SumTwice(nums) ==
    IF Len(nums) = 0 THEN 0
    ELSE (2 * Head(nums)[3]) \div Head(nums)[4] + SumTwice(Tail(nums))

\* what C20 says of the result r of f(args)
C20_Expected(f, args, r) ==
    LET use == UsableAt(args)
    IN  IF use = {} THEN r = NaN
        ELSE IF \E i \in use : NumberAt(args, i) = NaN THEN r = NaN
        ELSE CASE f = Name("min") ->
                    /\ \E i \in use : r = NumberAt(args, i)
                    /\ \A i \in use : FLe(r, NumberAt(args, i))
               [] f = Name("max") ->
                    /\ \E i \in use : r = NumberAt(args, i)
                    /\ \A i \in use : FLe(NumberAt(args, i), r)
               [] f = Name("avg") ->
                    IsFraction(r, SumTwice([i \in 1..Len(args) |->
                                               IF i \in use THEN NumberAt(args, i)
                                               ELSE Fin(0, 1)]),
                               2 * Cardinality(use))

\* C20: min, max and avg reduce over the usable arguments, the Ints, the
\* Floats and the numeric strings, and skip the others: the result is the
\* minimum, the maximum or the mean of the usable values as a Float (NaN
\* when one of them is NaN), and NaN when no argument is usable
C20_Reduce ==
    (status = "returned" /\ ran # NilExpr)
        => /\ IsFloat(result)
           /\ C20_Expected(ran[2][2], ran[3], result)

\* a Run of avg(2, "abc", "10") has returned 6: the string abc is skipped
C20_Witness ==
    /\ status = "returned"
    /\ ran = Call("avg", <<IntLit(<<"2">>), Str(Abc), Str(<<"1", "0">>)>>)
    /\ result = Fin(6, 1)

BetweenOf(tree) == CHOOSE a \in BetweenOperands : a[1] = tree

ConditionOf(tree) == (CHOOSE c \in IfConditions : c[1] = tree)[2]
BranchOf(tree) == (CHOOSE a \in IfBranches : a[1] = tree)[2]

\* C22: ifExpr(cond, a, b) returns the value of a when cond is the Bool true
\* and the value of b when cond is the Bool false, a string without its
\* quotes and every other value with its type; it returns NaN when cond is
\* no Bool
C22_IfExpr ==
    (status = "returned" /\ ran # NilExpr) =>
        result = CASE ConditionOf(ran[3][1]) = BoolV(TRUE) -> BranchOf(ran[3][2])
                   [] ConditionOf(ran[3][1]) = BoolV(FALSE) -> BranchOf(ran[3][3])
                   [] OTHER -> NaN

\* a Run of ifExpr(1 < 0, 7, "OK") has returned the string OK
C22_Witness ==
    /\ status = "returned"
    /\ ran = Call("ifExpr", <<BinaryExpr("LSS", One, Zero), IntLit(<<"7">>), Str(<<"O", "K">>)>>)
    /\ result = StrV(<<"O", "K">>)

\* the operand a tree of a cast stands for
CastOf(tree) == CHOOSE a \in CastOperands : a[1] = tree

\* C23: int(x) is 1 and 0 for the Bools, the Int itself, the Float truncated
\* toward zero, the parsed integer or the truncated parsed float of a numeric
\* string, and NaN for every other input (a string that is no number, no
\* argument, a Float that has no integer part: NaN and the infinities);
\* float64(x) is the Float the same input denotes, not truncated
C23_Coercion ==
    (status = "returned" /\ ran # NilExpr) =>
        IF Len(ran[3]) = 0 THEN result = NaN
        ELSE IF ran[2] = Ident(Name("int")) THEN result = CastOf(ran[3][1])[2]
        ELSE result = CastOf(ran[3][1])[3]


\* the values a list of sprintf's operands denotes
SprintfValues(args) ==
    [i \in 1..Len(args) |-> (CHOOSE a \in SprintfOperands : a[1] = args[i])[2]]

\* C24: sprintf of a format and operands is the format with each verb replaced
\* by the value its operand denotes, a string rendered with %s giving its text
\* without quote characters, be it a literal, a variable or a val call
C24_SprintfStrings ==
    \A f \in SprintfFormats : \A a \in SprintfParams :
        (status = "returned" /\ ran = Call("sprintf", <<Str(f)>> \o a) /\ Len(a) > 0)
        => result = StrV(Sprintf(f, SprintfValues(a)))


\* the value an argument of a pair denotes
PairValue(tree) == (CHOOSE a \in PairOperands : a[1] = tree)[2]

\* the entries the pairs at (i, i+1), (i+2, i+3), ... of args add to m, a pair
\* with a string key being stored and any other pair skipped as a whole
RECURSIVE PairsStored(_, _, _)
PairsStored(args, i, m) ==
    IF i + 1 > Len(args) THEN m
    ELSE IF IsString(PairValue(args[i]))
    THEN PairsStored(args, i + 2, (PairValue(args[i])[2] :> PairValue(args[i + 1])) @@ m)
    ELSE PairsStored(args, i + 2, m)

\* C25: setVal(k1,v1,...,kn,vn) stores the pairs at the argument positions
\* (2i-1, 2i) whose key is a string; a pair whose key is no string is skipped
\* as a whole, its value never being taken for a key, and the pairs after it
\* keep their own keys and values
C25_PairsKeepTheirPairing ==
    (status = "returned" /\ ran # NilExpr) =>
        variables.m = PairsStored(ran[3], 1, << >>)


\* two numbers are equal: NaN equals nothing, itself included
SameNumber(x, y) ==
    /\ IsFinite(x)
    /\ IsFinite(y)
    /\ Num(x) * Den(y) = Num(y) * Den(x)

\* C26: l != r on a Float l and an Int r is true exactly when l equals r; on
\* an Int and a Float, two Ints and two Floats it is true exactly when the
\* operands differ
C26_NeqFloatInt ==
    \A a \in LogicOperands : \A b \in LogicOperands :
        (/\ IsNum(a[2])
         /\ IsNum(b[2])
         /\ status = "returned"
         /\ ran = BinaryExpr("NEQ", a[1], b[1]))
        => result = IF IsFloat(a[2]) /\ IsInt(b[2])
                    THEN BoolV(SameNumber(a[2], b[2]))
                    ELSE BoolV(~SameNumber(a[2], b[2]))

\* a Run of 1.0 != 1 has returned true
C26_Witness ==
    /\ status = "returned"
    /\ ran = BinaryExpr("NEQ", FloatLit(<<"1", ".", "0">>), One)
    /\ result = BoolV(TRUE)


\* the entries the setVal calls among args[i], args[i+1], ... write over m,
\* in this order
RECURSIVE Written(_, _, _)
Written(args, i, m) ==
    IF i > Len(args) THEN m
    ELSE Written(args, i + 1, (CHOOSE a \in EffectOperands : a[1] = args[i])[2] @@ m)

\* the operands of an ifExpr call or of a binary expression, left to right
OperandsOf(tree) == IF tree[1] = "CallExpr" THEN tree[3] ELSE <<tree[3], tree[4]>>

\* C27: ifExpr evaluates its condition, its then-value and its else-value,
\* and every binary operator, && and || included, its left and then its right
\* operand, whatever their values: after the Run the store holds what the
\* setVal calls in all the operands have written, the later over the earlier
C27_AllOperandsEvaluated ==
    (status = "returned" /\ ran # NilExpr) =>
        variables.m = Written(OperandsOf(ran), 1, << >>)

\* a Run of ifExpr(true, 1, setVal("b", 1)) has returned 1 and stored b
C27_Witness ==
    /\ status = "returned"
    /\ ran = Call("ifExpr", <<Ident(TrueName), One, SetValCall(KeyB, One)>>)
    /\ result = IntV(1)
    /\ variables.m = (KeyB :> IntV(1))


\* the positions of args below i that hold a probe, and the last position
\* that holds the probe p
ProbesBelow(args, i) == {j \in 1..(i - 1) : args[j] \in Probes}
LastAt(args, p) == CHOOSE i \in 1..Len(args) :
                        args[i] = p /\ \A j \in (i + 1)..Len(args) : args[j] # p

\* what setVal stores for a value argument of the model
StoredFor(tree) ==
    CASE tree = One -> IntV(1)
      [] tree = Str(KeyA) -> StrV(KeyA)
      [] OTHER -> NaN

\* C28: one setVal call evaluates each of its arguments exactly once, from
\* left to right, whatever their number and whichever keys are strings: the
\* Run adds the number of probes among the arguments to the counter and
\* every probe has stored the counter plus the number of probes to the left
\* of it; and a pair stored by the call is seen by an identifier or a val
\* call in a later argument
C28_EachArgumentOnce ==
    [][(Run /\ exp # NilExpr /\ status' = "returned") =>
        LET args == exp[3]
            n == variables.m[KeyN][2]
        IN  /\ variables'.m[KeyN] = IntV(n + Cardinality(ProbesBelow(args, Len(args) + 1)))
            /\ \A p \in ProbeKeys :
                   (\E i \in 1..Len(args) : args[i] = p[1])
                   => variables'.m[p[2]]
                          = IntV(n + Cardinality(ProbesBelow(args, LastAt(args, p[1]))))
            /\ \A r \in Readers :
                   (Len(args) >= 3 /\ args[1] = Str(KeyA) /\ args[3] = r[1])
                   => variables'.m[r[2]] = StoredFor(args[2])]_vars

\* a Run of setVal(probe p, "a", probe q) has counted two probes, p before q,
\* and stored the NaN the second probe stands for under a
C28_Witness ==
    /\ status = "returned"
    /\ ran = Call("setVal", <<Probe(KeyP), Str(KeyA), Probe(KeyQ)>>)
    /\ variables.m[KeyN] = IntV(2)
    /\ variables.m[KeyP] = IntV(0)
    /\ variables.m[KeyQ] = IntV(1)
    /\ variables.m[KeyA] = NaN

\* a tree holds a call of setVal
RECURSIVE ContainsSetVal(_)
ContainsSetVal(tree) ==
    CASE tree[1] = "UnaryExpr" -> ContainsSetVal(tree[3])
      [] tree[1] = "ParenExpr" -> ContainsSetVal(tree[2])
      [] tree[1] = "BinaryExpr" -> ContainsSetVal(tree[3]) \/ ContainsSetVal(tree[4])
      [] tree[1] = "CallExpr" ->
            \/ tree[2] = Ident(Name("setVal"))
            \/ ContainsSetVal(tree[2])
            \/ \E i \in 1..Len(tree[3]) : ContainsSetVal(tree[3][i])
      [] OTHER -> FALSE

\* C29: only setVal changes the variable store: a SetInput, a ParseExpr that
\* succeeds or fails, a Run of a tree that holds no setVal call and a Run
\* before any ParseExpr leave the store as it was, every key and value of it
C29_OnlySetValWrites ==
    [][/\ (SetInputAny \/ ParseExpr) => variables' = variables
       /\ (Run /\ ~ContainsSetVal(exp)) => variables' = variables]_vars

\* after a setVal("a", 1) in an earlier Run, a Run of val("a") has returned 1
\* and the store still holds it
C29_Witness ==
    /\ status = "returned"
    /\ ran = ValCall(KeyA)
    /\ result = IntV(1)
    /\ variables.m[KeyA] = IntV(1)


\* C30: stringer of a string that begins with a double quote and ends with
\* another one is the string without that first and that last character, the
\* quote characters between them kept; stringer of any other string is the
\* string itself
C30_OnePairRemoved ==
    (status = "returned" /\ ran = QuotedText.tree) =>
        LET s == variables.m[KeyX][2]
        IN  result = StrV(IF Len(s) >= 2 /\ s[1] = DQ /\ s[Len(s)] = DQ
                          THEN SubSeq(s, 2, Len(s) - 1)
                          ELSE s)


====
